---- MODULE Spec2Model ----
(***************************************************************************)
(* law-mcp-server: the JSON-RPC request router and the three transports    *)
(* that feed it (stdio lines, legacy SSE, session-based streamable HTTP).  *)
(*                                                                         *)
(* JavaScript values are records [type, val]: type is what typeof/null     *)
(* distinguishes, val is the value's text.  An absent object key reads as  *)
(* the value undefined.  Ids are kept as their JSON text.                  *)
(***************************************************************************)
EXTENDS Integers, Sequences, FiniteSets, TLC

----------------------------------------------------------------------------
(* Bounds of the model *)

\* register calls made on a router under SpecRouter
MaxRegs == 3
\* set and get calls and clock advances on the cache in one run
MaxCacheOps == 3
\* requests a transport receives in one run (lines of standard input, HTTP
\* requests, event-stream requests included)
MaxReqs == 2
\* event streams (GET /events, GET /mcp) opened in one run
MaxConns == 2
\* requests the streamable HTTP transport receives in one run of the
\* session scenarios (SpecSessions)
MaxSessionReqs == 4
\* calls of the OAuthServer (registerClient, processAuthorize,
\* exchangeToken) and advances of the clock in one run
MaxOAuthCalls == 3
\* authorization codes processAuthorize issues in one run
MaxCodes == 2

----------------------------------------------------------------------------
(* JavaScript values *)

Js(t, v) == [type |-> t, val |-> v]
JsUndefined == Js("undefined", "undefined")
JsNull == Js("null", "null")
JsStr(s) == Js("string", s)
JsNum(s) == Js("number", s)
JsObj(s) == Js("object", s)
JsErr(m) == Js("Error", m)

\* String(v) for the values a handler can throw
JsString(v) ==
  CASE v.type = "Error" -> "Error: " \o v.val
    [] v.type = "object" -> "[object Object]"
    [] OTHER -> v.val

\* the id of a message: absent (undefined), null, or a number
Undefined == "undefined"
IdValues == {"null", "1"}
Ids == IdValues \cup {Undefined}

----------------------------------------------------------------------------
(* JSON-RPC responses (rpc.ts) *)

JSONRPC_INVALID_REQUEST == -32600
JSONRPC_METHOD_NOT_FOUND == -32601
JSONRPC_HANDLER_ERROR == -32000

\* the value null returned by handle
NullResponse ==
  [kind |-> "null", id |-> Undefined, result |-> JsUndefined, code |-> 0, message |-> ""]
\* { jsonrpc: "2.0", id, result }
ResultResponse(id, v) ==
  [kind |-> "result", id |-> id, result |-> v, code |-> 0, message |-> ""]
\* { jsonrpc: "2.0", id, error: { code, message } }
ErrorResponse(id, c, m) ==
  [kind |-> "error", id |-> id, result |-> JsUndefined, code |-> c, message |-> m]

\* JSON.stringify of a response object: a key whose value is undefined is
\* left out of the text
JsonStringify(resp) ==
  [id |-> resp.id,
   keys |-> IF resp.kind = "error" THEN {"error"}
            ELSE IF resp.result.type = "undefined" THEN {}
            ELSE {"result"},
   result |-> resp.result,
   code |-> resp.code,
   message |-> resp.message]

----------------------------------------------------------------------------
(* Handlers *)

NoHandler == "<none>"

\* the handlers index.ts registers, and two test doubles of type RequestHandler
StartupHandlers ==
  {"initializeHandler", "initializedHandler", "pingHandler",
   "toolsListHandler", "toolsCallHandler"}
StubHandlers == {"stubThrowsString", "stubThrowsNull"}
HandlerNames == StartupHandlers \cup StubHandlers

MethodNames ==
  {"initialize", "notifications/initialized", "ping", "tools/list",
   "tools/call", "no/such"}

\* tools.ts: the tools array and resolveTool
ToolNames == {"fetch_law", "search_laws", "check_consistency", "summarize_law"}
ResolveTool(name) == name \in ToolNames

\* params of a message: absent, or an object whose name key is a JS value
Params(absent, name) == [absent |-> absent, name |-> name]
ParamsAbsent == Params(TRUE, JsUndefined)
ParamValues ==
  {ParamsAbsent,
   Params(FALSE, JsUndefined),
   Params(FALSE, JsNum("42")),
   Params(FALSE, JsStr("fetch_law")),
   Params(FALSE, JsStr("bogus"))}

\* request.params ?? {}
ParamsOrEmpty(p) == IF p.absent THEN Params(FALSE, JsUndefined) ELSE p

Return(v) == [kind |-> "return", value |-> v]
Throw(v) == [kind |-> "throw", value |-> v]

\* a tool's own handler resolves with its content or rejects, here with
\* the Error of requireString
ToolHandlerOutcomes ==
  {Return(JsObj("content")), Throw(JsErr("Field lawId is required"))}

\* { content: [{ type: "text", text: message }], isError: true }
ToolFailure(text) == JsObj("{content:[{type:text,text:" \o text \o "}],isError:true}")

\* a tools/call handler that lets the tool's failure through
ToolsCallSettleRethrows(o) ==
  IF o.kind = "return" THEN Return(JsObj("{content}")) ELSE o

\* the try/catch of the tools/call handler around await tool.handler(args)
ToolsCallSettle(o) ==
  IF o.kind = "return" THEN Return(JsObj("{content}"))
  ELSE Return(ToolFailure(IF o.value.type = "Error" THEN o.value.val
                          ELSE JsString(o.value)))

\* the tools/call handler of index.ts
ToolsCallOutcomes(p) ==
  IF p.name.type # "string"
  THEN {Throw(JsErr("Tool name is required and must be a string"))}
  ELSE IF ~ResolveTool(p.name.val)
  THEN {Throw(JsErr("Tool " \o p.name.val \o " is not available"))}
  ELSE {ToolsCallSettle(o) : o \in ToolHandlerOutcomes}

\* what a handler called with params can settle to
HandlerOutcomes(h, p) ==
  CASE h = "initializeHandler" ->
         {Return(JsObj("{protocolVersion,serverInfo,instructions,capabilities}"))}
    [] h = "initializedHandler" -> {Return(JsUndefined)}
    [] h = "pingHandler" -> {Return(JsObj("{}"))}
    [] h = "toolsListHandler" -> {Return(JsObj("{tools}"))}
    [] h = "toolsCallHandler" -> ToolsCallOutcomes(p)
    [] h = "stubThrowsString" -> {Throw(JsStr("oops"))}
    [] h = "stubThrowsNull" -> {Throw(JsNull)}

\* whether the handler waits for the upstream API before it settles (then
\* other events are handled in between); otherwise it settles within the
\* same turn of the event loop
AwaitsIo(h, p) ==
  h = "toolsCallHandler" /\ p.name.type = "string" /\ ResolveTool(p.name.val)

----------------------------------------------------------------------------
(* JsonRpcRouter (rpc.ts) *)

EmptyHandlers == [m \in MethodNames |-> NoHandler]

\* this.handlers.get(method)
Lookup(hs, method) == IF method \in DOMAIN hs THEN hs[method] ELSE NoHandler

RegisterKeepsFirst(hs, m, h) ==
  IF hs[m] # NoHandler THEN hs ELSE [hs EXCEPT ![m] = h]

\* register(method, handler)
Register(hs, m, h) == [hs EXCEPT ![m] = h]

\* a message as handle receives it
Request(jsonrpc, method, id, params) ==
  [jsonrpc |-> jsonrpc, method |-> method, id |-> id, params |-> params]

\* request.jsonrpc !== "2.0" || typeof request.method !== "string"
InvalidEnvelope(req) == req.jsonrpc # "2.0" \/ req.method.type # "string"

\* handle, up to the call of the handler: either it returns at once
\* (returned, response) or it calls the handler (handler)
Dispatched(returned, response, handler) ==
  [returned |-> returned, response |-> response, handler |-> handler]

\* an unknown method is dropped like a notification
HandleDispatchDropsUnknown(hs, req) ==
  IF InvalidEnvelope(req)
  THEN Dispatched(TRUE,
         IF req.id = Undefined THEN NullResponse
         ELSE ErrorResponse(req.id, JSONRPC_INVALID_REQUEST, "Invalid Request"),
         NoHandler)
  ELSE IF Lookup(hs, req.method.val) = NoHandler
  THEN Dispatched(TRUE, NullResponse, NoHandler)
  ELSE Dispatched(FALSE, NullResponse, Lookup(hs, req.method.val))

HandleDispatchUnknownIsInvalid(hs, req) ==
  IF InvalidEnvelope(req) \/ Lookup(hs, req.method.val) = NoHandler
  THEN Dispatched(TRUE,
         IF req.id = Undefined THEN NullResponse
         ELSE ErrorResponse(req.id, JSONRPC_INVALID_REQUEST, "Invalid Request"),
         NoHandler)
  ELSE Dispatched(FALSE, NullResponse, Lookup(hs, req.method.val))

HandleDispatch(hs, req) ==
  IF InvalidEnvelope(req)
  THEN Dispatched(TRUE,
         IF req.id = Undefined THEN NullResponse
         ELSE ErrorResponse(req.id, JSONRPC_INVALID_REQUEST, "Invalid Request"),
         NoHandler)
  ELSE IF Lookup(hs, req.method.val) = NoHandler
  THEN Dispatched(TRUE,
         IF req.id = Undefined THEN NullResponse
         ELSE ErrorResponse(req.id, JSONRPC_METHOD_NOT_FOUND, "Method not found"),
         NoHandler)
  ELSE Dispatched(FALSE, NullResponse, Lookup(hs, req.method.val))

ErrorMessageOnlyOfErrors(thrown) ==
  IF thrown.type = "Error" THEN thrown.val ELSE "Unknown error"

\* error instanceof Error ? error.message : String(error)
ErrorMessage(thrown) ==
  IF thrown.type = "Error" THEN thrown.val ELSE JsString(thrown)

\* how handle's promise settles: fulfilled with a response, or rejected
Settled(rejected, response) == [rejected |-> rejected, response |-> response]

\* the id test written as a truthiness test: null counts as absent
HandleSettleFalsyId(req, outcome) ==
  IF outcome.kind = "return"
  THEN Settled(FALSE,
         IF req.id \in {Undefined, "null"} THEN NullResponse
         ELSE ResultResponse(req.id, outcome.value))
  ELSE Settled(FALSE,
         IF req.id \in {Undefined, "null"} THEN NullResponse
         ELSE ErrorResponse(req.id, JSONRPC_HANDLER_ERROR,
                            ErrorMessage(outcome.value)))

\* the catch answers whether or not the message has an id
HandleSettleAnswersNotifications(req, outcome) ==
  IF outcome.kind = "return"
  THEN Settled(FALSE,
         IF req.id = Undefined THEN NullResponse
         ELSE ResultResponse(req.id, outcome.value))
  ELSE Settled(FALSE,
         ErrorResponse(req.id, JSONRPC_HANDLER_ERROR, ErrorMessage(outcome.value)))

\* handle, from the settling of the handler (the try/catch around the await)
HandleSettle(req, outcome) ==
  IF outcome.kind = "return"
  THEN Settled(FALSE,
         IF req.id = Undefined THEN NullResponse
         ELSE ResultResponse(req.id, outcome.value))
  ELSE Settled(FALSE,
         IF req.id = Undefined THEN NullResponse
         ELSE ErrorResponse(req.id, JSONRPC_HANDLER_ERROR,
                            ErrorMessage(outcome.value)))

----------------------------------------------------------------------------
(* What the transports read *)

\* a line of standard input or an HTTP request body: text that is no JSON,
\* the JSON text null, or a JSON object with the keys of msg
Body(json, msg) == [json |-> json, msg |-> msg]
NoMsg == Request("", JsUndefined, Undefined, ParamsAbsent)

\* lines of standard input: every id, every registered method
ValidMessages ==
  {Request("2.0", JsStr(m), i, ParamsAbsent) :
     m \in {"initialize", "notifications/initialized", "ping", "tools/list", "no/such"},
     i \in Ids}
  \cup {Request("2.0", JsStr("tools/call"), i, Params(FALSE, JsStr(n))) :
          i \in Ids, n \in {"fetch_law", "bogus"}}
BrokenMessages ==
  {Request("1.0", JsStr("ping"), i, ParamsAbsent) : i \in {Undefined, "1"}}
  \cup {Request("2.0", JsNum("7"), "1", ParamsAbsent)}
Bodies ==
  {Body("notjson", NoMsg), Body("null", NoMsg)}
  \cup {Body("object", m) : m \in ValidMessages \cup BrokenMessages}

\* bodies of POST /messages and POST /mcp: a notification and a request for
\* each kind of handling (result, no result, waits for the API, throws,
\* unknown method) and the three ways a body fails to parse
HttpMessages(methods) ==
  {Request("2.0", JsStr(m), i, ParamsAbsent) : m \in methods, i \in {Undefined, "1"}}
  \cup {Request("2.0", JsStr("tools/call"), i, Params(FALSE, JsStr(n))) :
          i \in {Undefined, "1"}, n \in {"fetch_law", "bogus"}}
HttpBodies(methods) ==
  {Body("notjson", NoMsg), Body("null", NoMsg),
   Body("object", Request("1.0", JsStr("ping"), "1", ParamsAbsent))}
  \cup {Body("object", m) : m \in HttpMessages(methods)}
SseBodies == HttpBodies({"notifications/initialized", "ping", "no/such"})
McpBodies == HttpBodies({"initialize", "notifications/initialized", "ping", "no/such"})

\* a parseMessage that does not look at the jsonrpc member
ParseMessageAnyVersion(body) ==
  /\ body.json # "notjson"
  /\ body.json # "null"
  /\ body.msg.method.type = "string"

\* parseMessage (the same code in mcp.ts, sse.ts and http.ts): whether the
\* text yields a message; JSON.parse throws, or the value is falsy, or the
\* envelope is wrong
ParseMessage(body) ==
  /\ body.json # "notjson"
  /\ body.json # "null"
  /\ body.msg.jsonrpc = "2.0"
  /\ body.msg.method.type = "string"

\* the registry index.ts builds with router.register at startup
StartupRegistry ==
  Register(Register(Register(Register(Register(EmptyHandlers,
    "initialize", "initializeHandler"),
    "notifications/initialized", "initializedHandler"),
    "ping", "pingHandler"),
    "tools/list", "toolsListHandler"),
    "tools/call", "toolsCallHandler")

----------------------------------------------------------------------------
(* State *)

VARIABLES
  handlers,      \* JsonRpcRouter.handlers: method -> handler
  lastReg,       \* per method, the handler of the latest register call
  prevReg,       \* per method, the handler that call replaced
  nRegs,         \* register calls made
  call,          \* the handle call of SpecRouter
  transport,     \* process.env.TRANSPORT: "stdio", "sse" or "http"
  budget,        \* how many requests the clients send in this run
  stdioHandlers, \* StdioJsonRpcServer.handlers
  reqs,          \* the requests received, in order of arrival
  nReq,          \* how many have arrived
  microtasks,    \* continuations queued to run before the next I/O event
  wire,          \* the JSON-RPC frames written, in order: by which request,
                 \* to which sink (0: standard output or the HTTP reply of
                 \* the request; c >= 1: event stream c)
  streams,       \* the event-stream requests (GET /events, GET /mcp), in
                 \* order of arrival
  nStream,       \* how many have arrived
  connections,   \* SSEJsonRpcServer.connections
  timers,        \* the streams whose heartbeat interval is running
  sessions,      \* StreamableHttpServer.sessions (the keys)
  sseResponse,   \* Session.sseResponse of every session object created
  issued,        \* the session ids randomUUID has returned
  oauth,         \* whether an OAuthServer is configured (options.oauth)
  now,           \* Date.now(), in milliseconds
  clients,       \* OAuthServer.clients (the keys; the secret of a client
                 \* is ClientSecret of its id)
  codes,         \* OAuthServer.codes: code -> PendingCode
  codesIssued,   \* the codes processAuthorize has returned
  redeemed,      \* per code, the tokens exchangeToken issued for it
  minted,        \* the tokens issueToken has returned
  tokenCall,     \* the latest exchangeToken call: its code, the entry the
                 \* map had for it, the result, the time
  nOAuth,        \* OAuthServer calls and clock advances made
  endpointCall,  \* the latest request to /oauth/register, /oauth/authorize
                 \* or /oauth/token: its input, the reply, whether the
                 \* callback threw
  before,        \* the clients, codes and tokens of the processes that
                 \* ran before the latest restart
  cacheStore,    \* MemoryCache.store: the entries in insertion order
  cacheOp,       \* the latest call on the cache and what it returned
  nCache         \* cache calls and clock advances made

routerVars == <<handlers, lastReg, prevReg, nRegs, call>>
loopVars == <<reqs, nReq, microtasks, wire>>
sseVars == <<connections, timers>>
httpVars == <<sessions, sseResponse, issued>>
streamVars == <<streams, nStream>>
oauthVars ==
  <<oauth, now, clients, codes, codesIssued, redeemed, minted, tokenCall, nOAuth,
    endpointCall, before>>
cacheVars == <<cacheStore, cacheOp, nCache>>
configVars == <<transport, budget, stdioHandlers, oauthVars>>
transportVars ==
  <<transport, budget, stdioHandlers, reqs, nReq, microtasks, wire,
    streams, nStream, connections, timers, sessions, sseResponse, issued,
    oauthVars>>
vars ==
  <<handlers, lastReg, prevReg, nRegs, call,
    transport, budget, stdioHandlers, reqs, nReq, microtasks, wire,
    streams, nStream, connections, timers, sessions, sseResponse, issued,
    oauth, now, clients, codes, codesIssued, redeemed, minted, tokenCall, nOAuth,
    endpointCall, before, cacheStore, cacheOp, nCache>>

Slots == 1..MaxSessionReqs
Conns == 1..MaxConns
NoConn == 0

\* the values randomUUID can return in one run
UuidNames == <<"uuid-a", "uuid-b", "uuid-c", "uuid-d", "uuid-e", "uuid-f">>
Uuids == {UuidNames[i] : i \in 1..MaxReqs}

IdleCall ==
  [phase |-> "idle", request |-> Request("2.0", JsUndefined, Undefined, ParamsAbsent),
   handler |-> NoHandler, invoked |-> {}, outcome |-> Return(JsUndefined),
   response |-> NullResponse]

\* what extractToken finds in a request: nothing, a string that is not of
\* the form header.body.signature, or such a string: the key its signature
\* was made with and the aud, sub and exp of its payload
NoToken ==
  [kind |-> "none", text |-> "", key |-> "", aud |-> "", sub |-> "",
   hasExp |-> FALSE, exp |-> 0]
Opaque(text) == [NoToken EXCEPT !.kind = "opaque", !.text = text]
Jwt(key, aud, sub, exp) ==
  [kind |-> "jwt", text |-> "", key |-> key, aud |-> aud, sub |-> sub,
   hasExp |-> TRUE, exp |-> exp]

\* a request that has not arrived
IdleReq ==
  [pc |-> "idle", route |-> "", token |-> NoToken, json |-> "", parsed |-> FALSE,
   msg |-> NoMsg, header |-> Undefined, session |-> Undefined,
   handler |-> NoHandler, response |-> NullResponse, status |-> 0,
   wwwAuthenticate |-> Undefined, replySession |-> Undefined]

\* an event-stream request that has not arrived
IdleStream == [state |-> "idle", session |-> Undefined]

\* a frame written for request s to a sink
Frame(s, sink, resp) == [req |-> s, sink |-> sink, text |-> JsonStringify(resp)]
ReplySink == 0

\* the transports are not running under SpecRouter
TransportOff ==
  /\ transport = "none"
  /\ budget = 0
  /\ stdioHandlers = EmptyHandlers
  /\ reqs = [s \in Slots |-> IdleReq]
  /\ nReq = 0
  /\ microtasks = <<>>
  /\ wire = <<>>
  /\ streams = [c \in Conns |-> IdleStream]
  /\ nStream = 0
  /\ connections = {}
  /\ timers = {}
  /\ sessions = {}
  /\ sseResponse = [u \in Uuids |-> NoConn]
  /\ issued = {}

----------------------------------------------------------------------------
(* The event loop *)

\* an I/O event is handled only when no continuation is queued
LoopIdle == microtasks = <<>>

\* one more request can arrive in this run
MayArrive == nReq + nStream < budget

\* the continuation of request s may run: it is the next queued one, or it
\* waits for I/O and nothing is queued
MayResume(s) ==
  IF s \in {microtasks[i] : i \in DOMAIN microtasks}
  THEN Head(microtasks) = s
  ELSE LoopIdle

\* the queue once the continuation of s has run
Resumed(s) ==
  IF microtasks # <<>> /\ Head(microtasks) = s THEN Tail(microtasks) ELSE microtasks

\* the queue once request s awaits handler h called with params p
Awaiting(s, h, p) ==
  IF AwaitsIo(h, p) THEN microtasks ELSE Append(microtasks, s)

----------------------------------------------------------------------------
(* StdioJsonRpcServer (mcp.ts) *)

\* the line listener up to the call of the handler: unknown methods are
\* answered at once when the message has an id
StdioDispatch(hs, msg) ==
  IF Lookup(hs, msg.method.val) = NoHandler
  THEN Dispatched(TRUE,
         IF msg.id # Undefined
         THEN ErrorResponse(msg.id, JSONRPC_METHOD_NOT_FOUND, "Method not found")
         ELSE NullResponse,
         NoHandler)
  ELSE Dispatched(FALSE, NullResponse, Lookup(hs, msg.method.val))

\* the listener without the id tests
StdioSettleAnswersAll(msg, outcome) ==
  IF outcome.kind = "return" THEN ResultResponse(msg.id, outcome.value)
  ELSE ErrorResponse(msg.id, JSONRPC_HANDLER_ERROR, ErrorMessage(outcome.value))

\* the line listener from the settling of the handler: what it sends
\* (NullResponse: nothing)
StdioSettle(msg, outcome) ==
  IF msg.id = Undefined THEN NullResponse
  ELSE IF outcome.kind = "return" THEN ResultResponse(msg.id, outcome.value)
  ELSE ErrorResponse(msg.id, JSONRPC_HANDLER_ERROR, ErrorMessage(outcome.value))

\* send(payload): one line on standard output, if there is a payload
StdioSend(s, resp) ==
  IF resp.kind = "null" THEN wire ELSE Append(wire, Frame(s, ReplySink, resp))

\* a line arrives on standard input; lines of one chunk are delivered in
\* the same turn, so a line may arrive while continuations are queued
StdioLine(body) ==
  /\ transport = "stdio"
  /\ MayArrive
  /\ LET s == nReq + 1
         d == StdioDispatch(stdioHandlers, body.msg)
     IN
     /\ nReq' = s
     /\ IF ~ParseMessage(body)
        THEN /\ reqs' = [reqs EXCEPT ![s] =
                  [IdleReq EXCEPT !.pc = "done", !.route = "line", !.json = body.json,
                                  !.msg = body.msg]]
             /\ UNCHANGED <<microtasks, wire>>
        ELSE IF d.returned
        THEN /\ reqs' = [reqs EXCEPT ![s] =
                  [IdleReq EXCEPT !.pc = "done", !.route = "line", !.parsed = TRUE,
                                  !.msg = body.msg, !.response = d.response]]
             /\ wire' = StdioSend(s, d.response)
             /\ UNCHANGED microtasks
        ELSE /\ reqs' = [reqs EXCEPT ![s] =
                  [IdleReq EXCEPT !.pc = "awaiting", !.route = "line", !.parsed = TRUE,
                                  !.msg = body.msg, !.handler = d.handler]]
             /\ microtasks' = Awaiting(s, d.handler, ParamsOrEmpty(body.msg.params))
             /\ UNCHANGED wire
  /\ UNCHANGED <<cacheVars, routerVars, configVars, streamVars, sseVars, httpVars>>

\* the handler of a line settles and the listener resumes
StdioResume(s) ==
  /\ transport = "stdio"
  /\ reqs[s].pc = "awaiting"
  /\ MayResume(s)
  /\ \E o \in HandlerOutcomes(reqs[s].handler, ParamsOrEmpty(reqs[s].msg.params)) :
       LET resp == StdioSettle(reqs[s].msg, o) IN
       /\ reqs' = [reqs EXCEPT ![s].pc = "done", ![s].response = resp]
       /\ wire' = StdioSend(s, resp)
  /\ microtasks' = Resumed(s)
  /\ UNCHANGED <<cacheVars, routerVars, configVars, nReq, streamVars, sseVars, httpVars>>

----------------------------------------------------------------------------
(* What the HTTP transports read *)

API_KEY == "API_KEY"
ApiKeyToken == Opaque(API_KEY)
\* the credential of a request: none, the API key, or another token
Tokens == {NoToken, ApiKeyToken, Opaque("wrong")}

\* extractToken and the comparison with options.apiKey
TokenIsApiKey(token) == token # NoToken /\ token = ApiKeyToken

\* the router call of a POST up to the await: the response handle has
\* ready, or the handler it called
\* (router.handle is HandleDispatch followed by HandleSettle)
RouterResume(r, outcome) ==
  IF r.handler = NoHandler THEN Settled(FALSE, r.response)
  ELSE HandleSettle(r.msg, outcome)

\* the outcomes the awaited call of request r can have
AwaitedOutcomes(r) ==
  IF r.handler = NoHandler THEN {Return(JsUndefined)}
  ELSE HandlerOutcomes(r.handler, ParamsOrEmpty(r.msg.params))

\* the queue once request s awaits router.handle
AwaitingRouter(s, d, msg) ==
  IF d.returned THEN Append(microtasks, s)
  ELSE Awaiting(s, d.handler, ParamsOrEmpty(msg.params))

----------------------------------------------------------------------------
(* OAuthServer (oauth.ts) *)

TOKEN_TTL_SECONDS == 3600
\* 10 * 60 * 1000: the lifetime of an authorization code, in milliseconds
CODE_TTL_MS == 600000

\* opts.issuerUrl, and the resource `${issuerUrl}/mcp` of an issuer
ISSUER_URL == "ISSUER_URL"
ResourceUrl(issuer) ==
  IF issuer = ISSUER_URL THEN "ISSUER_URL/mcp" ELSE "OTHER_URL/mcp"

\* the ids randomBytes(16) gives to clients, and the secret randomBytes(32)
\* gave to each
ClientIds == {"clientA", "clientB"}
ClientSecret(id) == IF id = "clientA" THEN "secretA" ELSE "secretB"

\* the codes randomBytes(32) can return in one run
CodeNames == <<"code1", "code2", "code3">>
Codes == {CodeNames[i] : i \in 1..MaxCodes}

\* an entry of the code map; NoCode: the map has no entry
PendingCode(clientId, redirectUri, codeChallenge, codeChallengeMethod, expiresAt) ==
  [stored |-> TRUE, clientId |-> clientId, redirectUri |-> redirectUri,
   codeChallenge |-> codeChallenge, codeChallengeMethod |-> codeChallengeMethod,
   expiresAt |-> expiresAt]
NoCode ==
  [stored |-> FALSE, clientId |-> "", redirectUri |-> "",
   codeChallenge |-> "", codeChallengeMethod |-> "", expiresAt |-> 0]

\* createHash("sha256").update(verifier).digest("base64url") on the
\* verifiers of the model: no two of them have the same digest, and no
\* digest is its own verifier
Sha256Base64Url(verifier) ==
  CASE verifier = "verifier1" -> "digest1"
    [] verifier = "verifier2" -> "digest2"
    [] verifier = "digest1" -> "digest-of-digest1"
    [] OTHER -> "digest-of-other"

VerifyPkceIgnoresMethod(verifier, challenge, method) ==
  IF verifier = "" \/ challenge = "" THEN FALSE
  ELSE verifier = challenge \/ Sha256Base64Url(verifier) = challenge

VerifyPkce(verifier, challenge, method) ==
  IF verifier = "" \/ challenge = "" THEN FALSE
  ELSE IF method = "S256" THEN Sha256Base64Url(verifier) = challenge
  ELSE verifier = challenge

\* isTrustedRedirectUri: the string starts with "https://claude.ai/",
\* "http://localhost" or "http://127.0.0.1"
IsTrustedRedirectUri(uri) ==
  uri \in {"https://claude.ai/cb", "http://localhost/cb", "http://127.0.0.1/cb",
           "http://localhost.evil.example/cb", "http://localhost:99999999/cb"}

\* new URL(uri) returns: it throws for a missing field, for text that is
\* no URL and for a port above 65535
WellFormedUrl(uri) ==
  uri \in {"https://claude.ai/cb", "http://localhost/cb", "http://127.0.0.1/cb",
           "http://localhost.evil.example/cb", "https://evil.example/cb"}

\* Math.floor(ms / 1000)
EpochSeconds(ms) == ms \div 1000

\* issueToken and signJwt: a token signed with the API key
IssueToken(sub, ms) ==
  Jwt(API_KEY, ResourceUrl(ISSUER_URL), sub, EpochSeconds(ms) + TOKEN_TTL_SECONDS)

VerifyJwtIgnoresExp(token, ms) ==
  /\ token.kind = "jwt"
  /\ token.key = API_KEY
  /\ token.aud = ResourceUrl(ISSUER_URL)

VerifyJwtExpiresAtExp(token, ms) ==
  /\ token.kind = "jwt"
  /\ token.key = API_KEY
  /\ ~(token.hasExp /\ token.exp <= EpochSeconds(ms))
  /\ token.aud = ResourceUrl(ISSUER_URL)

\* verifyJwt: three parts, the signature is the HMAC of the first two
\* under the API key, exp is not a number below the current second, aud
\* is the resource
VerifyJwt(token, ms) ==
  /\ token.kind = "jwt"
  /\ token.key = API_KEY
  /\ ~(token.hasExp /\ token.exp < EpochSeconds(ms))
  /\ token.aud = ResourceUrl(ISSUER_URL)

ValidateToken(token) == VerifyJwt(token, now)

\* the Authorization header of a token request
NoAuthHeader == [scheme |-> "none", colon |-> FALSE, id |-> "", secret |-> ""]
Basic(id, secret) == [scheme |-> "Basic", colon |-> TRUE, id |-> id, secret |-> secret]
BasicNoColon == [scheme |-> "Basic", colon |-> FALSE, id |-> "", secret |-> ""]

\* v ?? "" for a form field
OrEmpty(v) == IF v = Undefined THEN "" ELSE v

\* the client credentials exchangeToken uses: those of a Basic header that
\* has a colon, else those of the body
ClientCredentials(body, header) ==
  IF header.scheme = "Basic" /\ header.colon
  THEN [id |-> header.id, secret |-> header.secret]
  ELSE [id |-> OrEmpty(body.client_id), secret |-> OrEmpty(body.client_secret)]

TokenResult(error, deletes, token) ==
  [error |-> error, deletes |-> deletes, token |-> token]

CodeExpiredAtDeadline(entry, ms) == ms >= entry.expiresAt

\* Date.now() > codeEntry.expiresAt
CodeExpired(entry, ms) == ms > entry.expiresAt

SecretMismatchIgnored(cred, registered) == FALSE

\* client && clientSecret && client.clientSecret !== clientSecret
SecretMismatch(cred, registered) ==
  /\ cred.id \in registered
  /\ cred.secret # ""
  /\ ClientSecret(cred.id) # cred.secret

ExchangeTokenSkipsClientCheck(body, header, store, registered, ms) ==
  LET cred == ClientCredentials(body, header)
      code == OrEmpty(body.code)
  IN
  IF body.grant_type # "authorization_code"
  THEN TokenResult("unsupported_grant_type", FALSE, NoToken)
  ELSE IF code \notin Codes \/ ~store[code].stored
  THEN TokenResult("invalid_grant", FALSE, NoToken)
  ELSE IF CodeExpired(store[code], ms)
  THEN TokenResult("invalid_grant", TRUE, NoToken)
  ELSE IF ~VerifyPkce(OrEmpty(body.code_verifier), store[code].codeChallenge,
                      store[code].codeChallengeMethod)
  THEN TokenResult("invalid_grant", FALSE, NoToken)
  ELSE TokenResult("", TRUE, IssueToken(cred.id, ms))

ExchangeTokenKeepsCode(body, header, store, registered, ms) ==
  LET cred == ClientCredentials(body, header)
      code == OrEmpty(body.code)
  IN
  IF body.grant_type # "authorization_code"
  THEN TokenResult("unsupported_grant_type", FALSE, NoToken)
  ELSE IF code \notin Codes \/ ~store[code].stored
  THEN TokenResult("invalid_grant", FALSE, NoToken)
  ELSE IF CodeExpired(store[code], ms)
  THEN TokenResult("invalid_grant", TRUE, NoToken)
  ELSE IF store[code].redirectUri # body.redirect_uri
  THEN TokenResult("invalid_grant", FALSE, NoToken)
  ELSE IF store[code].clientId # cred.id
  THEN TokenResult("invalid_grant", FALSE, NoToken)
  ELSE IF ~VerifyPkce(OrEmpty(body.code_verifier), store[code].codeChallenge,
                      store[code].codeChallengeMethod)
  THEN TokenResult("invalid_grant", FALSE, NoToken)
  ELSE TokenResult("", FALSE, IssueToken(cred.id, ms))

\* exchangeToken as a function of the request, the code map, the client
\* map and the clock: the error ("" for none), whether the code is
\* deleted, the token
ExchangeTokenResult(body, header, store, registered, ms) ==
  LET cred == ClientCredentials(body, header)
      code == OrEmpty(body.code)
  IN
  IF body.grant_type # "authorization_code"
  THEN TokenResult("unsupported_grant_type", FALSE, NoToken)
  ELSE IF code \notin Codes \/ ~store[code].stored
  THEN TokenResult("invalid_grant", FALSE, NoToken)
  ELSE IF CodeExpired(store[code], ms)
  THEN TokenResult("invalid_grant", TRUE, NoToken)
  ELSE IF store[code].redirectUri # body.redirect_uri
  THEN TokenResult("invalid_grant", FALSE, NoToken)
  ELSE IF store[code].clientId # cred.id
  THEN TokenResult("invalid_grant", FALSE, NoToken)
  ELSE IF ~VerifyPkce(OrEmpty(body.code_verifier), store[code].codeChallenge,
                      store[code].codeChallengeMethod)
  THEN TokenResult("invalid_grant", FALSE, NoToken)
  ELSE IF SecretMismatch(cred, registered)
  THEN TokenResult("invalid_client", FALSE, NoToken)
  ELSE TokenResult("", TRUE, IssueToken(cred.id, ms))

\* no exchangeToken call was made yet
NoTokenCall ==
  [called |-> FALSE, code |-> "", entry |-> NoCode,
   result |-> TokenResult("", FALSE, NoToken), at |-> 0]

\* a form without fields; no request to an OAuth endpoint was made yet
NoForm ==
  [api_key |-> Undefined, client_id |-> Undefined, redirect_uri |-> Undefined,
   code_challenge |-> Undefined, code_challenge_method |-> Undefined]
EndpointCall(seq, endpoint, form, body, status, error, thrown) ==
  [seq |-> seq, endpoint |-> endpoint, form |-> form, body |-> body,
   status |-> status, error |-> error, thrown |-> thrown]
NoEndpointCall == EndpointCall(0, "none", NoForm, "", 0, "", FALSE)

\* nothing ran before this process
NothingBefore == [clients |-> {}, codes |-> {}, tokens |-> {}]

\* the state of a new OAuthServer, or of a server that has none
OAuthInit(configured) ==
  /\ oauth = configured
  /\ now = 0
  /\ clients = {}
  /\ codes = [c \in Codes |-> NoCode]
  /\ codesIssued = {}
  /\ redeemed = [c \in Codes |-> 0]
  /\ minted = {}
  /\ tokenCall = NoTokenCall
  /\ nOAuth = 0
  /\ endpointCall = NoEndpointCall
  /\ before = NothingBefore

\* one more OAuthServer call or clock advance can happen in this run
MayCall == oauth /\ nOAuth < MaxOAuthCalls

\* time passes
ClockSteps == {1, CODE_TTL_MS, TOKEN_TTL_SECONDS * 1000}
Tick(d) ==
  /\ MayCall
  /\ now' = now + d
  /\ nOAuth' = nOAuth + 1
  /\ UNCHANGED <<cacheVars, routerVars, transport, budget, stdioHandlers, loopVars,
                 streamVars, sseVars, httpVars,
                 oauth, clients, codes, codesIssued, redeemed, minted, tokenCall,
                 endpointCall, before>>

\* randomBytes(16).toString("hex"): an id no client has; clientA is the
\* client registered first
NewClientId(registered) ==
  IF "clientA" \notin registered THEN {"clientA"} ELSE ClientIds \ registered

\* what registerClient does to the client map: a new client id with its
\* secret
RegisterEffect ==
  \E id \in NewClientId(clients \cup before.clients) : clients' = clients \cup {id}

\* registerClient(body) for a body that is an object
RegisterClient ==
  /\ MayCall
  /\ RegisterEffect
  /\ nOAuth' = nOAuth + 1
  /\ UNCHANGED <<cacheVars, routerVars, transport, budget, stdioHandlers, loopVars,
                 streamVars, sseVars, httpVars,
                 oauth, now, codes, codesIssued, redeemed, minted, tokenCall,
                 endpointCall, before>>

\* randomBytes(32).toString("hex"): a code that was not returned before;
\* the codes are named in the order of their issue
NewCode(used) ==
  {CodeNames[i] : i \in {Cardinality(used) + 1} \cap (1..MaxCodes)}

AuthorizeResult(outcome, error, stores) ==
  [outcome |-> outcome, error |-> error, stores |-> stores]

ProcessAuthorizeTakesAnyKey(form, registered) ==
  IF form.client_id \notin registered /\ form.redirect_uri = Undefined
  THEN AuthorizeResult("throw", "", FALSE)
  ELSE IF form.client_id \notin registered /\ ~IsTrustedRedirectUri(form.redirect_uri)
  THEN AuthorizeResult("error", "client not registered", FALSE)
  ELSE IF ~WellFormedUrl(form.redirect_uri)
  THEN AuthorizeResult("throw", "", TRUE)
  ELSE AuthorizeResult("redirect", "", TRUE)

\* processAuthorize as a function of the form and the client map: whether
\* it returns an error, returns a redirect or throws, and whether it has
\* stored a code by then.  uri.startsWith throws for a missing
\* redirect_uri; new URL(redirect_uri) throws after the code is stored
ProcessAuthorizeResult(form, registered) ==
  IF form.api_key # API_KEY
  THEN AuthorizeResult("error", "api key", FALSE)
  ELSE IF form.client_id \notin registered /\ form.redirect_uri = Undefined
  THEN AuthorizeResult("throw", "", FALSE)
  ELSE IF form.client_id \notin registered /\ ~IsTrustedRedirectUri(form.redirect_uri)
  THEN AuthorizeResult("error", "client not registered", FALSE)
  ELSE IF ~WellFormedUrl(form.redirect_uri)
  THEN AuthorizeResult("throw", "", TRUE)
  ELSE AuthorizeResult("redirect", "", TRUE)

\* what processAuthorize does to the code map
AuthorizeEffect(form) ==
  IF ProcessAuthorizeResult(form, clients).stores
  THEN \E code \in NewCode(codesIssued) :
         /\ codes' = [codes EXCEPT ![code] =
              PendingCode(form.client_id, form.redirect_uri, form.code_challenge,
                IF form.code_challenge_method = Undefined THEN "S256"
                ELSE form.code_challenge_method,
                now + CODE_TTL_MS)]
         /\ codesIssued' = codesIssued \cup {code}
  ELSE UNCHANGED <<codes, codesIssued>>

\* processAuthorize(form)
ProcessAuthorize(form) ==
  /\ MayCall
  /\ nOAuth' = nOAuth + 1
  /\ AuthorizeEffect(form)
  /\ UNCHANGED <<cacheVars, routerVars, transport, budget, stdioHandlers, loopVars,
                 streamVars, sseVars, httpVars,
                 oauth, now, clients, redeemed, minted, tokenCall,
                 endpointCall, before>>

\* what exchangeToken does to the code map, and the record of the call
TokenEffect(body, header) ==
  LET r == ExchangeTokenResult(body, header, codes, clients, now)
      code == OrEmpty(body.code)
  IN
  /\ tokenCall' = [called |-> TRUE, code |-> code,
                   entry |-> IF code \in Codes THEN codes[code] ELSE NoCode,
                   result |-> r, at |-> now]
  /\ codes' = IF r.deletes THEN [codes EXCEPT ![code] = NoCode] ELSE codes
  /\ minted' = IF r.error = "" THEN minted \cup {r.token} ELSE minted
  /\ redeemed' = IF r.error = "" THEN [redeemed EXCEPT ![code] = @ + 1]
                 ELSE redeemed

\* exchangeToken(body, authorizationHeader)
ExchangeToken(body, header) ==
  /\ MayCall
  /\ nOAuth' = nOAuth + 1
  /\ TokenEffect(body, header)
  /\ UNCHANGED <<cacheVars, routerVars, transport, budget, stdioHandlers, loopVars,
                 streamVars, sseVars, httpVars,
                 oauth, now, clients, codesIssued, endpointCall, before>>

RestartKeepsCodes ==
  /\ MayCall
  /\ transport = "none"
  /\ nOAuth' = nOAuth + 1
  /\ before' = [clients |-> before.clients \cup clients,
                codes |-> before.codes \cup {c \in Codes : codes[c].stored},
                tokens |-> before.tokens \cup minted]
  /\ clients' = {}
  /\ minted' = {}
  /\ tokenCall' = NoTokenCall
  /\ endpointCall' = NoEndpointCall
  /\ UNCHANGED <<cacheVars, routerVars, transport, budget, stdioHandlers, loopVars,
                 streamVars, sseVars, httpVars,
                 oauth, now, codes, codesIssued, redeemed>>

\* the process is restarted: index.ts builds a new OAuthServer with the
\* same issuer URL and API key, its maps empty; what the earlier
\* processes registered and issued is remembered in before
Restart ==
  /\ MayCall
  /\ transport = "none"
  /\ nOAuth' = nOAuth + 1
  /\ before' = [clients |-> before.clients \cup clients,
                codes |-> before.codes \cup {c \in Codes : codes[c].stored},
                tokens |-> before.tokens \cup minted]
  /\ clients' = {}
  /\ codes' = [c \in Codes |-> NoCode]
  /\ minted' = {}
  /\ tokenCall' = NoTokenCall
  /\ endpointCall' = NoEndpointCall
  /\ UNCHANGED <<cacheVars, routerVars, transport, budget, stdioHandlers, loopVars,
                 streamVars, sseVars, httpVars,
                 oauth, now, codesIssued, redeemed>>

\* the bodies of POST /oauth/register: text JSON.parse throws on, the JSON
\* text null, a JSON object
RegisterBodies == {"notjson", "null", "object"}

\* handleOAuth for POST /oauth/register: 400 when JSON.parse throws; else
\* registerClient(parsed), which reads parsed.redirect_uris and so throws
\* a TypeError for null, outside any try: the callback's promise rejects
\* and no reply is written
OAuthRegister(body) ==
  /\ transport = "http"
  /\ MayCall
  /\ nOAuth' = nOAuth + 1
  /\ IF body = "object" THEN RegisterEffect ELSE UNCHANGED clients
  /\ endpointCall' =
       IF body = "notjson"
       THEN EndpointCall(nOAuth + 1, "register", NoForm, body, 400, "invalid_request", FALSE)
       ELSE IF body = "null"
       THEN EndpointCall(nOAuth + 1, "register", NoForm, body, 0, "", TRUE)
       ELSE EndpointCall(nOAuth + 1, "register", NoForm, body, 201, "", FALSE)
  /\ UNCHANGED <<cacheVars, routerVars, transport, budget, stdioHandlers, loopVars,
                 streamVars, sseVars, httpVars,
                 oauth, now, codes, codesIssued, redeemed, minted, tokenCall, before>>

\* handleOAuth for POST /oauth/authorize: 302 to the redirect, or 400 with
\* the form rendered again; a throw of processAuthorize is not caught
OAuthAuthorize(form) ==
  /\ transport = "http"
  /\ MayCall
  /\ nOAuth' = nOAuth + 1
  /\ AuthorizeEffect(form)
  /\ LET r == ProcessAuthorizeResult(form, clients) IN
     endpointCall' =
       EndpointCall(nOAuth + 1, "authorize", form, "",
                    CASE r.outcome = "redirect" -> 302
                      [] r.outcome = "error" -> 400
                      [] OTHER -> 0,
                    r.error, r.outcome = "throw")
  /\ UNCHANGED <<cacheVars, routerVars, transport, budget, stdioHandlers, loopVars,
                 streamVars, sseVars, httpVars,
                 oauth, now, clients, redeemed, minted, tokenCall, before>>

\* handleOAuth for POST /oauth/token: 400 with the error, or 200 with the
\* token
OAuthToken(body, header) ==
  /\ transport = "http"
  /\ MayCall
  /\ nOAuth' = nOAuth + 1
  /\ TokenEffect(body, header)
  /\ LET r == ExchangeTokenResult(body, header, codes, clients, now) IN
     endpointCall' =
       EndpointCall(nOAuth + 1, "token", NoForm, "",
                    IF r.error # "" THEN 400 ELSE 200, r.error, FALSE)
  /\ UNCHANGED <<cacheVars, routerVars, transport, budget, stdioHandlers, loopVars,
                 streamVars, sseVars, httpVars,
                 oauth, now, clients, codesIssued, before>>

----------------------------------------------------------------------------
(* SSEJsonRpcServer (sse.ts) *)

SseRoutes == {"OPTIONS", "GET /events", "POST /messages", "GET /health", "other"}

\* the createServer callback: the status it replies at once, or 0 when it
\* goes on to handleEvents or handleMessage
SseRoute(route, token) ==
  IF route = "OPTIONS" THEN 204
  ELSE IF ~TokenIsApiKey(token) THEN 401
  ELSE IF route \in {"GET /events", "POST /messages"} THEN 0
  ELSE IF route = "GET /health" THEN 200
  ELSE 404

\* a request that is answered at once, or a POST /messages whose body is
\* then read (the token of an OPTIONS request is not looked at)
SseRequest(route, token) ==
  /\ transport = "sse"
  /\ LoopIdle
  /\ MayArrive
  /\ route = "OPTIONS" => token = NoToken
  /\ LET s == nReq + 1
         st == SseRoute(route, token)
     IN
     /\ ~(route = "GET /events" /\ st = 0)
     /\ nReq' = s
     /\ reqs' = [reqs EXCEPT ![s] =
          [IdleReq EXCEPT !.pc = IF st = 0 THEN "reading" ELSE "done",
                          !.route = route, !.token = token, !.status = st]]
  /\ UNCHANGED <<cacheVars, routerVars, configVars, microtasks, wire,
                 streamVars, sseVars, httpVars>>

\* an authorized GET /events: handleEvents
SseEvents ==
  /\ transport = "sse"
  /\ LoopIdle
  /\ MayArrive
  /\ nStream < MaxConns
  /\ SseRoute("GET /events", ApiKeyToken) = 0
  /\ LET c == nStream + 1 IN
     /\ nStream' = c
     /\ streams' = [streams EXCEPT ![c].state = "open"]
     /\ timers' = timers \cup {c}
     /\ connections' = connections \cup {c}
  /\ UNCHANGED <<cacheVars, routerVars, configVars, loopVars, httpVars>>

\* a close listener that leaves the heartbeat running
SseCloseKeepsTimer(c) ==
  /\ transport = "sse"
  /\ LoopIdle
  /\ streams[c].state \in {"open", "ended"}
  /\ streams' = [streams EXCEPT ![c].state = "closed"]
  /\ connections' = connections \ {c}
  /\ UNCHANGED <<cacheVars, routerVars, configVars, loopVars, nStream, httpVars, timers>>

\* the "close" event of an event stream
SseClose(c) ==
  /\ transport = "sse"
  /\ LoopIdle
  /\ streams[c].state \in {"open", "ended"}
  /\ streams' = [streams EXCEPT ![c].state = "closed"]
  /\ timers' = timers \ {c}
  /\ connections' = connections \ {c}
  /\ UNCHANGED <<cacheVars, routerVars, configVars, loopVars, nStream, httpVars>>

\* handleMessage once the body is read, up to the await of router.handle
SseBody(s, body) ==
  /\ transport = "sse"
  /\ LoopIdle
  /\ reqs[s].pc = "reading"
  /\ IF ~ParseMessage(body)
     THEN /\ reqs' = [reqs EXCEPT ![s].pc = "done", ![s].status = 400]
          /\ UNCHANGED microtasks
     ELSE LET d == HandleDispatch(handlers, body.msg) IN
          /\ reqs' = [reqs EXCEPT ![s].pc = "awaiting", ![s].parsed = TRUE,
                                  ![s].msg = body.msg, ![s].handler = d.handler,
                                  ![s].response = d.response]
          /\ microtasks' = AwaitingRouter(s, d, body.msg)
  /\ UNCHANGED <<cacheVars, routerVars, configVars, nReq, wire,
                 streamVars, sseVars, httpVars>>

ConnSeq == [c \in Conns |-> c]

\* a broadcast that reaches only the first connection of the set
BroadcastToFirst(s, resp, conns, failing) ==
  LET to == SelectSeq(ConnSeq, LAMBDA c : c \in conns /\ c \notin failing) IN
  [i \in 1..(IF to = <<>> THEN 0 ELSE 1) |-> Frame(s, to[i], resp)]

\* broadcast(payload): one message event on every connection of the set
\* whose write succeeds, in the order of the set
Broadcast(s, resp, conns, failing) ==
  LET to == SelectSeq(ConnSeq, LAMBDA c : c \in conns /\ c \notin failing) IN
  [i \in 1..Len(to) |-> Frame(s, to[i], resp)]

\* a handleMessage that refuses a message no event stream can carry
SseResumeNeedsListener(s) ==
  /\ transport = "sse"
  /\ reqs[s].pc = "awaiting"
  /\ MayResume(s)
  /\ \E o \in AwaitedOutcomes(reqs[s]) :
       LET resp == RouterResume(reqs[s], o).response IN
       /\ reqs' = [reqs EXCEPT ![s].pc = "done", ![s].response = resp,
                               ![s].status = IF connections = {} THEN 503 ELSE 202]
       /\ wire' = IF resp.kind = "null" THEN wire
                  ELSE wire \o Broadcast(s, resp, connections, {})
  /\ microtasks' = Resumed(s)
  /\ UNCHANGED <<cacheVars, routerVars, configVars, nReq, nStream, timers, httpVars,
                 connections, streams>>

\* router.handle settles; handleMessage broadcasts the response, if any,
\* and replies 202.  A write that throws ends the stream and drops it
\* from the set
SseResume(s) ==
  /\ transport = "sse"
  /\ reqs[s].pc = "awaiting"
  /\ MayResume(s)
  /\ \E o \in AwaitedOutcomes(reqs[s]) :
       LET resp == RouterResume(reqs[s], o).response IN
       /\ reqs' = [reqs EXCEPT ![s].pc = "done", ![s].response = resp,
                               ![s].status = 202]
       /\ IF resp.kind = "null"
          THEN UNCHANGED <<wire, connections, streams>>
          ELSE \E failing \in SUBSET connections :
                 /\ wire' = wire \o Broadcast(s, resp, connections, failing)
                 /\ connections' = connections \ failing
                 /\ streams' = [c \in Conns |->
                      IF c \in failing THEN [streams[c] EXCEPT !.state = "ended"]
                      ELSE streams[c]]
  /\ microtasks' = Resumed(s)
  /\ UNCHANGED <<cacheVars, routerVars, configVars, nReq, nStream, timers, httpVars>>

----------------------------------------------------------------------------
(* StreamableHttpServer (http.ts) *)

HttpRoutes ==
  {"OPTIONS", "GET /health", "POST /mcp", "GET /mcp", "DELETE /mcp", "other"}

\* the check that takes the API key also when an OAuthServer is configured
IsAuthorizedByApiKeyToo(token) ==
  IF token = NoToken \/ token = Opaque("") THEN FALSE
  ELSE (oauth /\ ValidateToken(token)) \/ token = ApiKeyToken

\* isAuthorized: the token is validated by the OAuthServer if there is
\* one, else compared with the API key
IsAuthorized(token) ==
  IF token = NoToken \/ token = Opaque("") THEN FALSE
  ELSE IF oauth THEN ValidateToken(token)
  ELSE token = ApiKeyToken

\* sendUnauthorized: the WWW-Authenticate header of the 401 reply
ResourceMetadataChallenge ==
  "Bearer resource_metadata=ISSUER_URL/.well-known/oauth-protected-resource"
SendUnauthorized == IF oauth THEN ResourceMetadataChallenge ELSE Undefined

\* the callback that hands POST /mcp to handlePost before the credential
\* check
HttpRouteReadsBodyFirst(route, token) ==
  IF route = "OPTIONS" THEN 204
  ELSE IF route = "GET /health" THEN 200
  ELSE IF route = "POST /mcp" THEN 0
  ELSE IF ~IsAuthorized(token) THEN 401
  ELSE IF route \in {"GET /mcp", "DELETE /mcp"} THEN 0
  ELSE 404

\* the createServer callback (the OAuth endpoints apart): the status it
\* replies at once, or 0 when it goes on to handlePost, handleGet or
\* handleDelete
HttpRoute(route, token) ==
  IF route = "OPTIONS" THEN 204
  ELSE IF route = "GET /health" THEN 200
  ELSE IF ~IsAuthorized(token) THEN 401
  ELSE IF route \in {"POST /mcp", "GET /mcp", "DELETE /mcp"} THEN 0
  ELSE 404

\* the values of the Mcp-Session-Id request header: absent, empty, an id
\* the server never issued, an id it issued
SessionHeaders == {Undefined, "", "stale"} \cup issued

\* the check with one reply for both failures
SessionCheckAlwaysNotFound(header, registry) ==
  IF header \in registry THEN 0 ELSE 404

\* the session check of handleGet, handleDelete and of handlePost for
\* methods other than initialize: 400, 404, or 0 when the session is found
SessionCheck(header, registry) ==
  IF header = Undefined \/ header = "" THEN 400
  ELSE IF header \notin registry THEN 404
  ELSE 0

NewSessionIdReusesHeader(header, used) ==
  IF header \in Uuids THEN {header} ELSE Uuids \ used

\* randomUUID(): an id that was not returned before (122 random bits; a
\* repeat is not modelled), whatever the request's session header
NewSessionId(header, used) == Uuids \ used

\* a request that is answered at once, or a POST /mcp whose body is then
\* read (OPTIONS and GET /health do not look at the token)
HttpRequest(route, token) ==
  /\ transport = "http"
  /\ LoopIdle
  /\ MayArrive
  /\ route \in {"OPTIONS", "GET /health"} => token = NoToken
  /\ LET s == nReq + 1
         st == HttpRoute(route, token)
     IN
     /\ st = 0 => route = "POST /mcp"
     /\ nReq' = s
     /\ reqs' = [reqs EXCEPT ![s] =
          [IdleReq EXCEPT !.pc = IF st = 0 THEN "reading" ELSE "done",
                          !.route = route, !.token = token, !.status = st,
                          !.wwwAuthenticate =
                             IF st = 401 THEN SendUnauthorized ELSE Undefined]]
  /\ UNCHANGED <<cacheVars, routerVars, configVars, microtasks, wire,
                 streamVars, sseVars, httpVars>>

\* handlePost once the body is read, up to the await of router.handle
HttpPostBody(s, body, header) ==
  /\ transport = "http"
  /\ LoopIdle
  /\ reqs[s].pc = "reading"
  /\ IF ~ParseMessage(body)
     THEN /\ reqs' = [reqs EXCEPT ![s].pc = "done", ![s].status = 400]
          /\ UNCHANGED <<microtasks, httpVars>>
     ELSE LET d == HandleDispatch(handlers, body.msg)
              check == SessionCheck(header, sessions)
          IN
          IF body.msg.method.val = "initialize"
          THEN \E newId \in NewSessionId(header, issued) :
                 /\ sessions' = sessions \cup {newId}
                 /\ issued' = issued \cup {newId}
                 /\ sseResponse' = [sseResponse EXCEPT ![newId] = NoConn]
                 /\ reqs' = [reqs EXCEPT ![s].pc = "awaiting", ![s].parsed = TRUE,
                               ![s].msg = body.msg, ![s].header = header,
                               ![s].session = newId, ![s].handler = d.handler,
                               ![s].response = d.response]
                 /\ microtasks' = AwaitingRouter(s, d, body.msg)
          ELSE IF check # 0
          THEN /\ reqs' = [reqs EXCEPT ![s].pc = "done", ![s].parsed = TRUE,
                             ![s].header = header, ![s].status = check]
               /\ UNCHANGED <<microtasks, httpVars>>
          ELSE /\ reqs' = [reqs EXCEPT ![s].pc = "awaiting", ![s].parsed = TRUE,
                             ![s].msg = body.msg, ![s].header = header,
                             ![s].session = header, ![s].handler = d.handler,
                             ![s].response = d.response]
               /\ microtasks' = AwaitingRouter(s, d, body.msg)
               /\ UNCHANGED httpVars
  /\ UNCHANGED <<cacheVars, routerVars, configVars, nReq, wire,
                 streamVars, sseVars>>

BaseHeadersWithoutSession(sessionId) == [mcpSessionId |-> Undefined]

\* baseHeaders(sessionId): the Mcp-Session-Id header of a reply
BaseHeaders(sessionId) == [mcpSessionId |-> sessionId]

\* router.handle settles; handlePost replies 202 without a body for a null
\* response, else 200 with the response as the body (one SSE frame when
\* the Accept header asks for text/event-stream, plain JSON otherwise: the
\* same JSON text and the same headers either way)
HttpPostResume(s) ==
  /\ transport = "http"
  /\ reqs[s].pc = "awaiting"
  /\ MayResume(s)
  /\ \E o \in AwaitedOutcomes(reqs[s]) :
       LET resp == RouterResume(reqs[s], o).response IN
       /\ reqs' = [reqs EXCEPT ![s].pc = "done", ![s].response = resp,
                               ![s].status = IF resp.kind = "null" THEN 202 ELSE 200,
                               ![s].replySession =
                                 BaseHeaders(reqs[s].session).mcpSessionId]
       /\ wire' = IF resp.kind = "null" THEN wire
                  ELSE Append(wire, Frame(s, ReplySink, resp))
  /\ microtasks' = Resumed(s)
  /\ UNCHANGED <<cacheVars, routerVars, configVars, nReq, streamVars,
                 sseVars, httpVars>>

\* GET /mcp by an authorized client: handleGet
HttpGet(header) ==
  /\ transport = "http"
  /\ LoopIdle
  /\ HttpRoute("GET /mcp", ApiKeyToken) = 0
  /\ IF SessionCheck(header, sessions) # 0
     THEN /\ MayArrive
          /\ nReq' = nReq + 1
          /\ reqs' = [reqs EXCEPT ![nReq + 1] =
               [IdleReq EXCEPT !.pc = "done", !.route = "GET /mcp",
                               !.token = ApiKeyToken, !.header = header,
                               !.status = SessionCheck(header, sessions)]]
          /\ UNCHANGED <<streamVars, sseResponse>>
     ELSE /\ MayArrive
          /\ nStream < MaxConns
          /\ nStream' = nStream + 1
          /\ streams' = [streams EXCEPT ![nStream + 1] =
               [state |-> "open", session |-> header]]
          /\ sseResponse' = [sseResponse EXCEPT ![header] = nStream + 1]
          /\ UNCHANGED <<reqs, nReq>>
  /\ UNCHANGED <<cacheVars, routerVars, configVars, microtasks, wire,
                 sseVars, sessions, issued>>

\* the listener that also drops the session
HttpStreamCloseDestroysSession(c) ==
  /\ transport = "http"
  /\ LoopIdle
  /\ streams[c].state \in {"open", "ended"}
  /\ streams' = [streams EXCEPT ![c].state = "closed"]
  /\ sessions' = sessions \ {streams[c].session}
  /\ UNCHANGED <<cacheVars, routerVars, configVars, loopVars, nStream,
                 sseVars, sseResponse, issued>>

\* the "close" event of a push stream: the listener clears the field of
\* the session object it was opened for, if that still holds this stream
HttpStreamClose(c) ==
  /\ transport = "http"
  /\ LoopIdle
  /\ streams[c].state \in {"open", "ended"}
  /\ streams' = [streams EXCEPT ![c].state = "closed"]
  /\ sseResponse' =
       IF sseResponse[streams[c].session] = c
       THEN [sseResponse EXCEPT ![streams[c].session] = NoConn]
       ELSE sseResponse
  /\ UNCHANGED <<cacheVars, routerVars, configVars, loopVars, nStream,
                 sseVars, sessions, issued>>

\* DELETE /mcp by an authorized client: handleDelete
HttpDelete(header) ==
  /\ transport = "http"
  /\ LoopIdle
  /\ MayArrive
  /\ HttpRoute("DELETE /mcp", ApiKeyToken) = 0
  /\ LET check == SessionCheck(header, sessions) IN
     /\ nReq' = nReq + 1
     /\ reqs' = [reqs EXCEPT ![nReq + 1] =
          [IdleReq EXCEPT !.pc = "done", !.route = "DELETE /mcp",
                          !.token = ApiKeyToken, !.header = header,
                          !.status = IF check # 0 THEN check ELSE 200]]
     /\ IF check # 0
        THEN UNCHANGED <<streams, sessions>>
        ELSE /\ streams' = [c \in Conns |->
                  IF c = sseResponse[header] /\ streams[c].state = "open"
                  THEN [streams[c] EXCEPT !.state = "ended"]
                  ELSE streams[c]]
             /\ sessions' = sessions \ {header}
  /\ UNCHANGED <<cacheVars, routerVars, configVars, microtasks, wire,
                 nStream, sseVars, sseResponse, issued>>

----------------------------------------------------------------------------
(* MemoryCache (cache.ts) *)

MAX_ENTRIES == 500

\* an entry of the store under its key; the value is the number of the set
\* call that wrote it
Entry(key, value, expiresAt) ==
  [key |-> key, value |-> value, expiresAt |-> expiresAt]
KeysOf(st) == {st[i].key : i \in DOMAIN st}
\* this.store.get(key), for a key of the store
StoreGet(st, key) == st[CHOOSE i \in DOMAIN st : st[i].key = key]
\* this.store.delete(key)
Without(st, key) == SelectSeq(st, LAMBDA e : e.key # key)

\* evictExpired, called at time ms
EvictExpired(st, ms) == SelectSeq(st, LAMBDA e : ~(ms > e.expiresAt))

\* this.store.set(key, entry): a key of the map keeps its place in the
\* iteration order, a new key goes last
MapSet(st, e) ==
  IF e.key \in KeysOf(st)
  THEN [i \in DOMAIN st |-> IF st[i].key = e.key THEN e ELSE st[i]]
  ELSE Append(st, e)

\* a set that never evicts
SetResultNoEviction(st, key, value, ttlSeconds, ms) ==
  MapSet(st, Entry(key, value, ms + ttlSeconds * 1000))

\* set(key, value, ttlSeconds) at time ms: the store afterwards
SetResult(st, key, value, ttlSeconds, ms) ==
  LET swept == IF Len(st) >= MAX_ENTRIES THEN EvictExpired(st, ms) ELSE st
      room == IF Len(swept) >= MAX_ENTRIES THEN Tail(swept) ELSE swept
  IN MapSet(room, Entry(key, value, ms + ttlSeconds * 1000))

\* get(key) at time ms: what it returns (found: a value, not undefined)
\* and the store afterwards
GetResult(st, key, ms) ==
  IF key \notin KeysOf(st)
  THEN [found |-> FALSE, value |-> -1, store |-> st]
  ELSE IF ms > StoreGet(st, key).expiresAt
  THEN [found |-> FALSE, value |-> -1, store |-> Without(st, key)]
  ELSE [found |-> TRUE, value |-> StoreGet(st, key).value, store |-> st]

CacheOp(op, key, ttl, found, value) ==
  [op |-> op, key |-> key, ttl |-> ttl, found |-> found, value |-> value]
NoCacheOp == CacheOp("none", 0, 0, FALSE, -1)

\* the cache of a new process
CacheInit ==
  /\ cacheStore = <<>>
  /\ cacheOp = NoCacheOp
  /\ nCache = 0

MayUseCache == nCache < MaxCacheOps

CacheSet(key, ttlSeconds) ==
  /\ MayUseCache
  /\ nCache' = nCache + 1
  /\ cacheStore' = SetResult(cacheStore, key, nCache + 1, ttlSeconds, now)
  /\ cacheOp' = CacheOp("set", key, ttlSeconds, FALSE, -1)
  /\ UNCHANGED <<routerVars, transportVars>>

CacheGet(key) ==
  /\ MayUseCache
  /\ nCache' = nCache + 1
  /\ LET r == GetResult(cacheStore, key, now) IN
     /\ cacheStore' = r.store
     /\ cacheOp' = CacheOp("get", key, 0, r.found, r.value)
  /\ UNCHANGED <<routerVars, transportVars>>

\* Date.now() advances between two calls
CacheTick(d) ==
  /\ MayUseCache
  /\ nCache' = nCache + 1
  /\ now' = now + d
  /\ cacheOp' = CacheOp("tick", 0, 0, FALSE, -1)
  /\ UNCHANGED <<routerVars, transport, budget, stdioHandlers, loopVars,
                 streamVars, sseVars, httpVars,
                 oauth, clients, codes, codesIssued, redeemed, minted, tokenCall,
                 nOAuth, endpointCall, before, cacheStore>>

----------------------------------------------------------------------------
(* SpecRouter: a JsonRpcRouter driven directly by register and handle *)

\* the messages handle is called with: params vary where a handler reads
\* them (tools/call), and both ways of breaking the envelope occur
RouterRequests ==
  {Request("2.0", JsStr(m), i, ParamsAbsent) : m \in {"ping", "no/such"}, i \in Ids}
  \cup {Request("2.0", JsStr("tools/call"), i, p) : i \in Ids, p \in ParamValues}
  \cup {Request("1.0", JsStr("ping"), i, ParamsAbsent) : i \in Ids}
  \cup {Request("2.0", JsNum("7"), i, ParamsAbsent) : i \in Ids}
RegMethods == {"ping", "tools/call"}
RegHandlers ==
  {"pingHandler", "initializedHandler", "toolsCallHandler",
   "stubThrowsString", "stubThrowsNull"}

InitRouter ==
  /\ handlers = EmptyHandlers
  /\ lastReg = EmptyHandlers
  /\ prevReg = EmptyHandlers
  /\ nRegs = 0
  /\ call = IdleCall
  /\ TransportOff
  /\ OAuthInit(FALSE) /\ CacheInit

RegisterCall(m, h) ==
  /\ nRegs < MaxRegs
  /\ handlers' = Register(handlers, m, h)
  /\ lastReg' = [lastReg EXCEPT ![m] = h]
  /\ prevReg' = [prevReg EXCEPT ![m] = lastReg[m]]
  /\ nRegs' = nRegs + 1
  /\ UNCHANGED <<call, transportVars, cacheVars>>

\* handle(request) runs to the await of the handler, or returns
HandleCall(req) ==
  /\ call.phase # "awaiting"
  /\ LET d == HandleDispatch(handlers, req) IN
     call' = [phase |-> IF d.returned THEN "fulfilled" ELSE "awaiting",
              request |-> req,
              handler |-> d.handler,
              invoked |-> IF d.returned THEN {} ELSE {d.handler},
              outcome |-> Return(JsUndefined),
              response |-> d.response]
  /\ UNCHANGED <<handlers, lastReg, prevReg, nRegs, transportVars, cacheVars>>

\* the handler's promise settles and handle resumes
HandlerSettles ==
  /\ call.phase = "awaiting"
  /\ \E o \in HandlerOutcomes(call.handler, ParamsOrEmpty(call.request.params)) :
       LET s == HandleSettle(call.request, o) IN
       call' = [call EXCEPT !.phase = IF s.rejected THEN "rejected" ELSE "fulfilled",
                            !.outcome = o,
                            !.response = s.response]
  /\ UNCHANGED <<handlers, lastReg, prevReg, nRegs, transportVars, cacheVars>>

NextRouter ==
  \/ \E m \in RegMethods, h \in RegHandlers : RegisterCall(m, h)
  \/ \E req \in RouterRequests : HandleCall(req)
  \/ HandlerSettles

SpecRouter == InitRouter /\ [][NextRouter]_vars

----------------------------------------------------------------------------
(* The server as index.ts starts it *)

\* index.ts: the router gets the startup registry; the transport is chosen
\* by TRANSPORT.  new StdioJsonRpcServer(router) passes the router to a
\* class that declares no constructor and keeps its own handler map, which
\* only its own register method fills
InitTransport(mode, hs, n) ==
  /\ handlers = hs
  /\ lastReg = hs
  /\ prevReg = EmptyHandlers
  /\ nRegs = 0
  /\ call = IdleCall
  /\ transport = mode
  /\ budget = n
  /\ IF mode = "stdio" THEN stdioHandlers \in {EmptyHandlers, StartupRegistry}
     ELSE stdioHandlers = EmptyHandlers
  /\ reqs = [s \in Slots |-> IdleReq]
  /\ nReq = 0
  /\ microtasks = <<>>
  /\ wire = <<>>
  /\ streams = [c \in Conns |-> IdleStream]
  /\ nStream = 0
  /\ connections = {}
  /\ timers = {}
  /\ sessions = {}
  /\ sseResponse = [u \in Uuids |-> NoConn]
  /\ issued = {}

InitServer(mode) ==
  InitTransport(mode, StartupRegistry, MaxReqs) /\ OAuthInit(FALSE) /\ CacheInit

NextStdio ==
  \/ \E b \in Bodies : StdioLine(b)
  \/ \E s \in Slots : StdioResume(s)

NextSse ==
  \/ \E r \in SseRoutes, t \in Tokens : SseRequest(r, t)
  \/ SseEvents
  \/ \E c \in Conns : SseClose(c)
  \/ \E s \in Slots, b \in SseBodies : SseBody(s, b)
  \/ \E s \in Slots : SseResume(s)

NextHttp ==
  \/ \E r \in HttpRoutes, t \in Tokens : HttpRequest(r, t)
  \/ \E s \in Slots, b \in McpBodies, h \in SessionHeaders : HttpPostBody(s, b, h)
  \/ \E s \in Slots : HttpPostResume(s)
  \/ \E h \in SessionHeaders : HttpGet(h)
  \/ \E c \in Conns : HttpStreamClose(c)
  \/ \E h \in SessionHeaders : HttpDelete(h)

InitStdio == InitServer("stdio")
InitSse == InitServer("sse")
InitHttp == InitServer("http")
Init == \E mode \in {"stdio", "sse", "http"} : InitServer(mode)
Next == NextStdio \/ NextSse \/ NextHttp

\* StreamableHttpServer takes the router as a constructor argument: the
\* router index.ts builds, one on which initialize was never registered,
\* one whose initialize handler throws
ComponentRegistries ==
  {StartupRegistry,
   Register(EmptyHandlers, "ping", "pingHandler"),
   Register(StartupRegistry, "initialize", "stubThrowsString")}
InitHttpRouters ==
  /\ \E hs \in ComponentRegistries : InitTransport("http", hs, MaxReqs)
  /\ OAuthInit(FALSE) /\ CacheInit
SpecHttpRouters == InitHttpRouters /\ [][NextHttp]_vars

\* the session scenarios: one client that initializes, pings, opens and
\* drops push streams and deletes sessions, always with the API key
SessionBodies ==
  {Body("object", Request("2.0", JsStr(m), "1", ParamsAbsent)) :
     m \in {"initialize", "ping"}}
InitSessions ==
  InitTransport("http", StartupRegistry, MaxSessionReqs) /\ OAuthInit(FALSE) /\ CacheInit
NextSessions ==
  \/ HttpRequest("POST /mcp", ApiKeyToken)
  \/ \E s \in Slots, b \in SessionBodies, h \in {Undefined} \cup issued :
       HttpPostBody(s, b, h)
  \/ \E s \in Slots : HttpPostResume(s)
  \/ \E h \in issued : HttpGet(h)
  \/ \E c \in Conns : HttpStreamClose(c)
  \/ \E h \in issued : HttpDelete(h)
SpecSessions == InitSessions /\ [][NextSessions]_vars

\* SpecSessionRace: a client that initializes, calls a tool (the handler
\* waits for the upstream API) and deletes sessions while calls are pending
RaceBodies ==
  {Body("object", Request("2.0", JsStr("initialize"), "1", ParamsAbsent))}
  \cup {Body("object", Request("2.0", JsStr("tools/call"), i,
                               Params(FALSE, JsStr("fetch_law")))) :
          i \in {Undefined, "1"}}
NextSessionRace ==
  \/ HttpRequest("POST /mcp", ApiKeyToken)
  \/ \E s \in Slots, b \in RaceBodies, h \in {Undefined} \cup issued :
       HttpPostBody(s, b, h)
  \/ \E s \in Slots : HttpPostResume(s)
  \/ \E h \in issued : HttpDelete(h)
InitSessionRace ==
  InitTransport("http", StartupRegistry, MaxReqs + 1) /\ OAuthInit(FALSE) /\ CacheInit
SpecSessionRace == InitSessionRace /\ [][NextSessionRace]_vars

\* SpecOAuth: an OAuthServer driven directly by its methods and the clock
PkcePairs ==
  {<<"digest1", "S256">>, <<"verifier1", "plain">>, <<"", "S256">>,
   <<"digest1", Undefined>>}
RedirectUris == {"https://claude.ai/cb", "https://evil.example/cb"}
AuthorizeForm(apiKey, clientId, redirectUri, pkce) ==
  [api_key |-> apiKey, client_id |-> clientId, redirect_uri |-> redirectUri,
   code_challenge |-> pkce[1], code_challenge_method |-> pkce[2]]
AuthorizeForms ==
  {AuthorizeForm(k, c, r, p) :
     k \in {API_KEY, "wrong"}, c \in ClientIds, r \in RedirectUris, p \in PkcePairs}
\* how a token request names its client: client_id and client_secret of
\* the body, and the Authorization header
ClientPresentations ==
  {<<"clientA", Undefined, NoAuthHeader>>,
   <<"clientB", Undefined, NoAuthHeader>>,
   <<Undefined, Undefined, NoAuthHeader>>,
   <<"clientA", "secretA", NoAuthHeader>>,
   <<"clientA", "wrong", NoAuthHeader>>,
   <<"clientB", Undefined, Basic("clientA", "secretA")>>,
   <<"clientA", Undefined, Basic("clientB", "wrong")>>,
   <<"clientA", Undefined, BasicNoColon>>}
TokenRequest(grant, code, redirectUri, client, verifier) ==
  [body |-> [grant_type |-> grant, code |-> code, redirect_uri |-> redirectUri,
             client_id |-> client[1], client_secret |-> client[2],
             code_verifier |-> verifier],
   header |-> client[3]]
TokenRequests ==
  {TokenRequest(g, c, r, p, v) :
     g \in {"authorization_code", "refresh_token"},
     c \in Codes \cup {Undefined},
     r \in RedirectUris,
     p \in ClientPresentations,
     v \in {Undefined, "verifier1", "digest1"}}

InitOAuth ==
  /\ handlers = EmptyHandlers
  /\ lastReg = EmptyHandlers
  /\ prevReg = EmptyHandlers
  /\ nRegs = 0
  /\ call = IdleCall
  /\ TransportOff
  /\ OAuthInit(TRUE) /\ CacheInit
NextOAuth ==
  \/ RegisterClient
  \/ \E f \in AuthorizeForms : ProcessAuthorize(f)
  \/ \E q \in TokenRequests : ExchangeToken(q.body, q.header)
  \/ \E d \in ClockSteps : Tick(d)
SpecOAuth == InitOAuth /\ [][NextOAuth]_vars

\* SpecHttpOAuth: the streaming server started with or without an
\* OAuthServer (index.ts builds one when ISSUER_URL is set); a client
\* obtains tokens through the authorization-code flow and requests arrive
\* with every kind of bearer token
ConsentForm ==
  AuthorizeForm(API_KEY, "clientA", "https://claude.ai/cb", <<"digest1", "S256">>)
RedeemRequests ==
  {TokenRequest("authorization_code", c, "https://claude.ai/cb",
                <<"clientA", Undefined, NoAuthHeader>>, "verifier1") : c \in Codes}
\* tokens not issued in this run: one the API key signed an hour before
\* the server started, one signed with another key, one for another
\* resource
ForeignTokens ==
  {IssueToken("clientA", 0 - TOKEN_TTL_SECONDS * 1000),
   Jwt("wrong", ResourceUrl(ISSUER_URL), "clientA", 2 * TOKEN_TTL_SECONDS),
   Jwt(API_KEY, ResourceUrl("OTHER_URL"), "clientA", 2 * TOKEN_TTL_SECONDS)}
BearerTokens == Tokens \cup minted \cup ForeignTokens
\* the body of an initialize request
InitializeBody == Body("object", Request("2.0", JsStr("initialize"), "1", ParamsAbsent))
InitHttpOAuth ==
  /\ InitTransport("http", StartupRegistry, MaxReqs)
  /\ \E configured \in BOOLEAN : OAuthInit(configured) /\ CacheInit
NextHttpOAuth ==
  \/ ProcessAuthorize(ConsentForm)
  \/ \E q \in RedeemRequests : ExchangeToken(q.body, q.header)
  \/ Tick(TOKEN_TTL_SECONDS * 1000)
  \/ \E t \in BearerTokens : HttpRequest("POST /mcp", t)
  \/ \E s \in Slots : HttpPostBody(s, InitializeBody, Undefined)
  \/ \E s \in Slots : HttpPostResume(s)
SpecHttpOAuth == InitHttpOAuth /\ [][NextHttpOAuth]_vars

\* SpecTokenLife: the streaming server with an OAuthServer; a client
\* obtains a token, an hour or an hour and a second pass, and requests
\* arrive with the tokens issued and with tokens from elsewhere
TokenClockSteps == {TOKEN_TTL_SECONDS * 1000, TOKEN_TTL_SECONDS * 1000 + 1000}
InitTokenLife ==
  InitTransport("http", StartupRegistry, MaxReqs) /\ OAuthInit(TRUE) /\ CacheInit
NextTokenLife ==
  \/ ProcessAuthorize(ConsentForm)
  \/ \E q \in RedeemRequests : ExchangeToken(q.body, q.header)
  \/ \E d \in TokenClockSteps : Tick(d)
  \/ \E t \in minted \cup ForeignTokens : HttpRequest("POST /mcp", t)
SpecTokenLife == InitTokenLife /\ [][NextTokenLife]_vars

\* SpecRestart: an OAuthServer driven by its methods, in a process that is
\* restarted
RestartForms ==
  {AuthorizeForm(API_KEY, c, r, <<"digest1", "S256">>) :
     c \in ClientIds, r \in RedirectUris}
NextRestart ==
  \/ RegisterClient
  \/ \E f \in RestartForms : ProcessAuthorize(f)
  \/ \E q \in RedeemRequests : ExchangeToken(q.body, q.header)
  \/ Restart
SpecRestart == InitOAuth /\ [][NextRestart]_vars

\* SpecOAuthEndpoints: the streaming server with an OAuthServer, driven
\* through POST /oauth/register, /oauth/authorize and /oauth/token with
\* well-formed, malformed and missing fields
EndpointRedirectUris ==
  {"https://claude.ai/cb", "https://evil.example/cb",
   "http://localhost.evil.example/cb", "http://localhost:99999999/cb",
   "not a url", Undefined}
EndpointForms ==
  {AuthorizeForm(k, c, r, <<"digest1", "S256">>) :
     k \in {API_KEY, "wrong"}, c \in ClientIds, r \in EndpointRedirectUris}
EndpointTokenRequests ==
  {TokenRequest(g, c, r, <<i, Undefined, NoAuthHeader>>, v) :
     g \in {"authorization_code", Undefined},
     c \in Codes \cup {Undefined},
     r \in {"https://claude.ai/cb", Undefined},
     i \in {"clientA", Undefined},
     v \in {"verifier1", Undefined}}
InitOAuthEndpoints ==
  InitTransport("http", StartupRegistry, MaxReqs) /\ OAuthInit(TRUE) /\ CacheInit
NextOAuthEndpoints ==
  \/ \E b \in RegisterBodies : OAuthRegister(b)
  \/ \E f \in EndpointForms : OAuthAuthorize(f)
  \/ \E q \in EndpointTokenRequests : OAuthToken(q.body, q.header)
SpecOAuthEndpoints == InitOAuthEndpoints /\ [][NextOAuthEndpoints]_vars

\* SpecSseStreams: the legacy server with an authorized client that opens
\* and drops event streams and posts messages: up to MaxConns streams are
\* open when a message is handled
StreamBodies ==
  {Body("object", Request("2.0", JsStr(m), i, ParamsAbsent)) :
     m \in {"ping", "no/such"}, i \in {Undefined, "1"}}
  \cup {Body("object", Request("2.0", JsStr("tools/call"), "1",
                               Params(FALSE, JsStr("fetch_law"))))}
InitSseStreams ==
  InitTransport("sse", StartupRegistry, MaxConns + 1) /\ OAuthInit(FALSE) /\ CacheInit
NextSseStreams ==
  \/ SseRequest("POST /messages", ApiKeyToken)
  \/ SseEvents
  \/ \E c \in Conns : SseClose(c)
  \/ \E s \in Slots, b \in StreamBodies : SseBody(s, b)
  \/ \E s \in Slots : SseResume(s)
SpecSseStreams == InitSseStreams /\ [][NextSseStreams]_vars

\* SpecCache: set and get calls on a MemoryCache that earlier calls, all
\* at time 0, have left empty, one short of full, or full; the entries
\* were written with the long TTL, with the short TTL, or alternately
\* (the oldest with the long one)
CacheTtls == {1, 3}
CachePatterns == {"fresh", "stale", "mixed"}
PrefillTtl(i, pattern) ==
  IF pattern = "fresh" \/ (pattern = "mixed" /\ i % 2 = 1) THEN 3 ELSE 1
Prefill(n, pattern) ==
  [i \in 1..n |-> Entry(i, 0, PrefillTtl(i, pattern) * 1000)]
Prefills ==
  {<<>>} \cup {Prefill(n, pattern) :
                 n \in {MAX_ENTRIES - 1, MAX_ENTRIES}, pattern \in CachePatterns}
SetKeys == {1, MAX_ENTRIES + 1, MAX_ENTRIES + 2}
GetKeys == {1, 2, MAX_ENTRIES + 1}
CacheTicks == {1000, 1001}
InitCache ==
  /\ handlers = EmptyHandlers
  /\ lastReg = EmptyHandlers
  /\ prevReg = EmptyHandlers
  /\ nRegs = 0
  /\ call = IdleCall
  /\ TransportOff
  /\ OAuthInit(FALSE)
  /\ cacheStore \in Prefills
  /\ cacheOp = NoCacheOp
  /\ nCache = 0
NextCache ==
  \/ \E k \in SetKeys, ttl \in CacheTtls : CacheSet(k, ttl)
  \/ \E k \in GetKeys : CacheGet(k)
  \/ \E d \in CacheTicks : CacheTick(d)
SpecCache == InitCache /\ [][NextCache]_vars

SpecStdio == InitStdio /\ [][NextStdio]_vars
SpecSse == InitSse /\ [][NextSse]_vars
SpecHttp == InitHttp /\ [][NextHttp]_vars
Spec == Init /\ [][Next]_vars

----------------------------------------------------------------------------
(* Claims about JsonRpcRouter, under SpecRouter *)

\* a step in which handle is called with a message whose envelope is valid
HandleCalled ==
  /\ call.phase # "awaiting"
  /\ call' # call
  /\ ~InvalidEnvelope(call'.request)

\* C3: for every request whose id is present (null included), handle
\* returns a non-null response whose id is the request's id, whether the
\* envelope was invalid, the method unknown, the handler returned or threw.
C3_ResponseEchoesId ==
  (call.phase = "fulfilled" /\ call.request.id # Undefined)
    => (call.response.kind \in {"result", "error"}
        /\ call.response.id = call.request.id)

\* a handler threw for a request whose id is null, and handle answered it
C3_Witness ==
  /\ call.phase = "fulfilled"
  /\ call.request.id = "null"
  /\ call.outcome.kind = "throw"
  /\ call.response.kind = "error"

\* C4: for every message without an id handle returns null: invalid
\* envelope, unknown method, handler returned, handler threw (the failure
\* never surfaces, neither as a response nor as a rejection).
C4_NotificationReturnsNull ==
  (call.phase # "idle" /\ call.request.id = Undefined)
    => (call.phase # "rejected"
        /\ (call.phase = "fulfilled" => call.response = NullResponse))

\* a handler threw for a message without id, and handle returned null
C4_Witness ==
  /\ call.phase = "fulfilled"
  /\ call.request.id = Undefined
  /\ call.invoked # {}
  /\ call.outcome.kind = "throw"
  /\ call.response.kind = "null"

\* C6: handle(method) invokes exactly one handler, the one of the most
\* recent register call for that method (none if there was no such call);
\* a handler registered earlier under the name is not invoked.
C6_LastRegistrationWins ==
  [][HandleCalled =>
       LET m == call'.request.method.val IN
       /\ call'.invoked = IF lastReg[m] = NoHandler THEN {} ELSE {lastReg[m]}
       /\ (prevReg[m] # lastReg[m] => prevReg[m] \notin call'.invoked)]_vars

\* "ping" was registered twice with different handlers, and a call of it
\* ran the second one
C6_Witness ==
  /\ prevReg["ping"] = "stubThrowsString"
  /\ lastReg["ping"] = "pingHandler"
  /\ call.phase = "fulfilled"
  /\ call.request.method = JsStr("ping")
  /\ call.invoked = {"pingHandler"}
  /\ call.response.kind = "result"

\* C7: a request with a valid envelope and an id whose method has no
\* registered handler is answered with error -32601 "Method not found",
\* and no handler is invoked.
C7_UnknownMethod ==
  [][(HandleCalled
      /\ call'.request.id # Undefined
      /\ handlers[call'.request.method.val] = NoHandler)
     => (/\ call'.phase = "fulfilled"
         /\ call'.invoked = {}
         /\ call'.response.kind = "error"
         /\ call'.response.id = call'.request.id
         /\ call'.response.code = -32601
         /\ call'.response.message = "Method not found")]_vars

\* a request for a method nobody registered was answered with -32601
\* while other methods had handlers
C7_Witness ==
  /\ call.phase = "fulfilled"
  /\ call.request.method = JsStr("no/such")
  /\ call.request.id = "1"
  /\ call.response.code = -32601
  /\ handlers["ping"] # NoHandler

\* the text of a thrown value: the message of an Error, the string itself,
\* "null" for null
ThrownText(v) ==
  CASE v.type = "Error" -> v.val
    [] v.type = "string" -> v.val
    [] v.type = "null" -> "null"

\* C8: when a registered handler throws for a request with an id, handle
\* returns an error response with code -32000 whose message is the text of
\* the thrown value; handle itself never throws.
C8_HandlerFailure ==
  /\ call.phase # "rejected"
  /\ (call.phase = "fulfilled" /\ call.outcome.kind = "throw"
      /\ call.request.id # Undefined)
       => (/\ call.response.kind = "error"
           /\ call.response.code = -32000
           /\ call.response.message = ThrownText(call.outcome.value))

\* a handler threw a string, not an Error, and the response carries it
C8_Witness ==
  /\ call.phase = "fulfilled"
  /\ call.request.id = "1"
  /\ call.outcome = Throw(JsStr("oops"))
  /\ call.response = ErrorResponse("1", -32000, "oops")

----------------------------------------------------------------------------
(* Claims about the transports *)

\* the frames written for request s to sink k
FramesTo(s, k) == {i \in DOMAIN wire : wire[i].req = s /\ wire[i].sink = k}
\* all frames written for request s
FramesOf(s) == {i \in DOMAIN wire : wire[i].req = s}
Sinks == {ReplySink} \cup Conns

\* request s is a JSON-RPC message the transport parsed and handed on
Submitted(s) ==
  /\ reqs[s].route \in {"line", "POST /messages", "POST /mcp"}
  /\ reqs[s].parsed
  /\ reqs[s].msg.method.type = "string"

\* C1: on every transport a message without an id never causes a JSON-RPC
\* response frame: no line on standard output, no message event on any
\* event stream, no body on POST /mcp (whose reply is the 202
\* acknowledgement), whether the method is unknown, the handler returns
\* or the handler throws.
C1_NotificationNoFrame ==
  \A s \in Slots :
    (reqs[s].pc # "idle" /\ reqs[s].msg.id = Undefined)
      => (/\ FramesOf(s) = {}
          /\ (transport = "http" /\ Submitted(s) /\ reqs[s].pc = "done")
               => reqs[s].status = 202)

\* on the legacy transport, with a stream open, a notification whose
\* handler threw was accepted and nothing was written
C1_Witness ==
  /\ transport = "sse"
  /\ connections # {}
  /\ \E s \in Slots :
       /\ reqs[s].pc = "done"
       /\ reqs[s].status = 202
       /\ reqs[s].msg.id = Undefined
       /\ reqs[s].msg.params.name = JsStr("bogus")
       /\ reqs[s].handler = "toolsCallHandler"
  /\ wire = <<>>

\* C2 as stated: every submitted request that carries an id has produced
\* exactly one JSON-RPC response frame once it is handled, on every
\* transport.
C2_ExactlyOneFrame ==
  \A s \in Slots :
    (Submitted(s) /\ reqs[s].msg.id # Undefined)
      => (/\ Cardinality(FramesOf(s)) <= 1
          /\ reqs[s].pc = "done" => Cardinality(FramesOf(s)) = 1)

\* C2, amended: a request with an id that the transport hands to its
\* dispatcher produces exactly one response frame on standard output
\* (stdio) or in the reply body (POST /mcp), also when the method is
\* unknown or the handler fails, and none before it is handled; on the
\* legacy transport the response is written at most once to each event
\* stream and is written nowhere else, so with no stream open there is no
\* frame.
C2_OneFramePerSink ==
  \A s \in Slots :
    (Submitted(s) /\ reqs[s].msg.id # Undefined)
      => (/\ \A k \in Sinks : Cardinality(FramesTo(s, k)) <= 1
          /\ reqs[s].pc # "done" => FramesOf(s) = {}
          /\ \A i \in FramesOf(s) : wire[i].text.id = reqs[s].msg.id
          /\ transport \in {"stdio", "http"} =>
               /\ \A c \in Conns : FramesTo(s, c) = {}
               /\ reqs[s].pc = "done" => Cardinality(FramesTo(s, ReplySink)) = 1
          /\ transport = "sse" =>
               /\ FramesTo(s, ReplySink) = {}
               /\ \A c \in Conns : FramesTo(s, c) # {} => streams[c].state # "idle")

\* on the streaming transport a request for an unknown method, sent in a
\* session, got its one frame in the reply
C2_Witness ==
  /\ transport = "http"
  /\ \E s \in Slots :
       /\ reqs[s].pc = "done" /\ reqs[s].status = 200
       /\ reqs[s].msg.method = JsStr("no/such")
       /\ reqs[s].msg.id # Undefined
       /\ reqs[s].response.kind = "error"
       /\ Cardinality(FramesOf(s)) = 1

\* C5 as stated: every response frame on the wire has exactly one of the
\* keys result and error, also when the handler returned no value.
C5_ResultXorError ==
  \A i \in DOMAIN wire : Cardinality(wire[i].text.keys) = 1

\* a step in which handlePost has read the body of request s
PostBodyRead(s) ==
  /\ reqs[s].route = "POST /mcp"
  /\ reqs[s].pc = "reading"
  /\ reqs'[s].pc # "reading"

\* C9: an authenticated POST /mcp whose method is not initialize replies
\* 400 when it has no Mcp-Session-Id header and 404 when the header names
\* an id that is not in the session registry; the reply is never 200 or
\* 202 and the router is not invoked.
C9_SessionRequired ==
  /\ [][\A s \in Slots :
          (PostBodyRead(s) /\ reqs'[s].parsed
           /\ reqs'[s].msg.method.val # "initialize")
            => (/\ reqs'[s].header = Undefined
                  => (reqs'[s].pc = "done" /\ reqs'[s].status = 400)
                /\ (reqs'[s].header \notin {Undefined, ""}
                    /\ reqs'[s].header \notin sessions)
                  => (reqs'[s].pc = "done" /\ reqs'[s].status = 404)
                /\ reqs'[s].pc = "done"
                  => (/\ reqs'[s].handler = NoHandler
                      /\ microtasks' = microtasks
                      /\ wire' = wire
                      /\ sessions' = sessions))]_vars
  /\ [][\A s \in Slots : reqs[s].pc = "done" => reqs'[s] = reqs[s]]_vars

\* with a session in the registry, a request naming an id that was never
\* issued was refused with 404 and one without the header with 400
C9_Witness ==
  /\ sessions # {}
  /\ \E s \in Slots :
       /\ reqs[s].route = "POST /mcp"
       /\ reqs[s].pc = "done"
       /\ reqs[s].parsed
       /\ reqs[s].header = "stale"
       /\ reqs[s].status = 404
       /\ reqs[s].handler = NoHandler

\* C10: every POST /mcp with method initialize (authenticated, body
\* parsed) adds a session to the registry whose id differs from every id
\* issued before, whatever Mcp-Session-Id header it carries; the session
\* the header names and every other session stay in the registry
\* unchanged.
C10_InitializeCreatesSession ==
  [][\A s \in Slots :
       (PostBodyRead(s) /\ reqs'[s].msg.method.val = "initialize")
         => LET id == reqs'[s].session IN
            /\ reqs'[s].pc = "awaiting"
            /\ id \in Uuids
            /\ id \notin issued
            /\ id # reqs'[s].header
            /\ sessions' = sessions \cup {id}
            /\ \A u \in sessions :
                 u # id /\ sseResponse'[u] = sseResponse[u]]_vars

\* an initialize that carried the id of a live session got a session of its
\* own, and both are in the registry
C10_Witness ==
  \E s \in Slots :
    /\ reqs[s].msg.method = JsStr("initialize")
    /\ reqs[s].pc = "done"
    /\ reqs[s].status = 200
    /\ reqs[s].header \in sessions
    /\ reqs[s].session \in sessions
    /\ reqs[s].session # reqs[s].header
    /\ reqs[s].replySession = reqs[s].session

----------------------------------------------------------------------------
(* Claims about sessions of the streamable HTTP transport *)

\* request s is a POST /mcp initialize that the router answered with an
\* error
InitializeFailed(s) ==
  /\ reqs[s].route = "POST /mcp"
  /\ reqs[s].msg.method = JsStr("initialize")
  /\ reqs[s].pc = "done"
  /\ reqs[s].response.kind = "error"

C12_ReplyCarriesSessionId ==
  \A s \in Slots :
    (reqs[s].route = "POST /mcp" /\ reqs[s].status \in {200, 202})
      => (/\ reqs[s].session \in issued
          /\ reqs[s].replySession = reqs[s].session
          /\ reqs[s].msg.method # JsStr("initialize")
               => reqs[s].replySession = reqs[s].header)

\* a notification sent in a session was acknowledged with 202 and the
\* session id it named, after the initialize reply carried the id it created
C12_Witness ==
  \E s, t \in Slots :
    /\ reqs[s].msg.method = JsStr("initialize")
    /\ reqs[s].status = 200
    /\ reqs[s].replySession = reqs[s].session
    /\ reqs[t].msg.method # JsStr("initialize")
    /\ reqs[t].status = 202
    /\ reqs[t].header = reqs[s].session
    /\ reqs[t].replySession = reqs[t].header

\* request d is a DELETE /mcp that succeeded
Deleted(d) == reqs[d].route = "DELETE /mcp" /\ reqs[d].status = 200

\* C13 as stated: after a successful DELETE /mcp for a session no push
\* stream opened with GET /mcp for that session remains open, the session
\* is absent from the registry, and every later POST, GET or DELETE naming
\* that id replies 404.
C13_DeleteClosesEveryStream ==
  \A d \in Slots :
    Deleted(d) =>
      LET u == reqs[d].header IN
      /\ u \notin sessions
      /\ \A c \in Conns : streams[c].session = u => streams[c].state # "open"
      /\ \A t \in Slots :
           (t > d /\ reqs[t].pc = "done" /\ reqs[t].header = u)
             => reqs[t].status = 404

\* C14: a session leaves the registry only in a successful DELETE /mcp
\* naming it; the disconnect of its push stream clears the session's push
\* channel and leaves the registry as it is, and a later POST /mcp naming
\* the session is handed to the router.
C14_OnlyDeleteRemoves ==
  /\ [][\A u \in sessions :
          u \notin sessions' =>
            \E d \in Slots :
              /\ reqs[d].pc = "idle"
              /\ reqs'[d].route = "DELETE /mcp"
              /\ reqs'[d].status = 200
              /\ reqs'[d].header = u]_vars
  /\ [][\A c \in Conns :
          (streams[c].state # "closed" /\ streams'[c].state = "closed")
            => (/\ sessions' = sessions
                /\ sseResponse[streams[c].session] = c
                     => sseResponse'[streams[c].session] = NoConn)]_vars
  /\ [][\A s \in Slots :
          (PostBodyRead(s) /\ reqs'[s].header \in sessions)
            => reqs'[s].pc = "awaiting"]_vars

\* the push stream of a live session has disconnected, its channel is
\* cleared, and a ping naming the session, read after that, is with the
\* router
C14_Witness ==
  \E c \in Conns, t \in Slots :
    /\ streams[c].state = "closed"
    /\ streams[c].session \in sessions
    /\ sseResponse[streams[c].session] = NoConn
    /\ reqs[t].pc = "awaiting"
    /\ reqs[t].header = streams[c].session
    /\ reqs[t].handler = "pingHandler"

\* C15 as stated: a session whose push stream has disconnected is no longer
\* in the registry.
C15_DisconnectDestroysSession ==
  \A c \in Conns :
    streams[c].state = "closed" => streams[c].session \notin sessions

\* C15, amended: a session is not destroyed when its push stream
\* disconnects: unless a DELETE /mcp for it succeeded, it is still in the
\* registry, and no POST /mcp naming it is answered 404.
C15_DisconnectKeepsSession ==
  \A c \in Conns :
    (/\ streams[c].state = "closed"
     /\ ~\E d \in Slots : Deleted(d) /\ reqs[d].header = streams[c].session)
      => (/\ streams[c].session \in sessions
          /\ \A t \in Slots :
               (reqs[t].route = "POST /mcp" /\ reqs[t].header = streams[c].session)
                 => reqs[t].status # 404)

\* after the push stream of a session disconnected, a ping naming the
\* session was answered 200 in that session
C15_Witness ==
  \E c \in Conns, t \in Slots :
    /\ streams[c].state = "closed"
    /\ streams[c].session \in sessions
    /\ reqs[t].header = streams[c].session
    /\ reqs[t].msg.method = JsStr("ping")
    /\ reqs[t].status = 200
    /\ reqs[t].replySession = streams[c].session

----------------------------------------------------------------------------
(* Claims about authentication *)

\* request r is one that needs a credential and has none that the
\* transport accepts (no OAuthServer is configured under Spec)
FailsAuthentication(r) ==
  /\ r.route \notin {"", "line", "OPTIONS"}
  /\ ~(transport = "http" /\ r.route = "GET /health")
  /\ r.token # ApiKeyToken

\* C16: on both HTTP transports a request that fails authentication is
\* answered 401 in the step in which it arrives: its body is not parsed, no
\* session is looked up or created, the router is not invoked, and nothing
\* of this happens to it later.
C16_UnauthorizedStopsFirst ==
  /\ [][\A s \in Slots :
          (reqs[s].pc = "idle" /\ reqs'[s].pc # "idle" /\ FailsAuthentication(reqs'[s]))
            => (/\ reqs'[s].status = 401
                /\ reqs'[s].pc = "done"
                /\ UNCHANGED <<microtasks, wire, sessions, sseResponse, issued,
                               connections, streams>>)]_vars
  /\ [](\A s \in Slots :
          FailsAuthentication(reqs[s])
            => (/\ ~reqs[s].parsed
                /\ reqs[s].msg = NoMsg
                /\ reqs[s].handler = NoHandler
                /\ reqs[s].session = Undefined
                /\ FramesOf(s) = {}))

\* with a session in the registry, a POST /mcp with a wrong token was
\* answered 401 and nothing else was done for it
C16_Witness ==
  /\ transport = "http"
  /\ sessions # {}
  /\ \E s \in Slots :
       /\ reqs[s].route = "POST /mcp"
       /\ reqs[s].token = Opaque("wrong")
       /\ reqs[s].status = 401
       /\ reqs[s].pc = "done"
       /\ ~reqs[s].parsed

\* the routes of the MCP endpoint
McpEndpoint == {"POST /mcp", "GET /mcp", "DELETE /mcp"}
\* the token is signed with the API key, is for this server's resource and
\* has not expired
PassesValidation(t) ==
  /\ t.kind = "jwt"
  /\ t.key = API_KEY
  /\ t.aud = "ISSUER_URL/mcp"
  /\ t.hasExp => t.exp >= now \div 1000
\* what the claim has the server accept
Entitled(t) == IF oauth THEN PassesValidation(t) ELSE t = Opaque(API_KEY)
\* request s arrives in this step
Arrives(s) == reqs[s].pc = "idle" /\ reqs'[s].pc # "idle"

\* C17: with an OAuthServer configured, a POST, GET or DELETE to /mcp gets
\* past the credential check if and only if its bearer token passes OAuth
\* validation (signature, expiry, audience); the raw API key as the token is
\* answered 401 with a WWW-Authenticate header naming
\* <issuer>/.well-known/oauth-protected-resource.  Without an OAuthServer
\* the request gets past the check iff the token equals the API key.
C17_AuthorizedIffTokenValid ==
  /\ [](\A r \in McpEndpoint, t \in BearerTokens :
          HttpRoute(r, t) # 401 <=> Entitled(t))
  /\ [][\A s \in Slots :
          (Arrives(s) /\ reqs'[s].route \in McpEndpoint) =>
            /\ reqs'[s].status # 401 <=> Entitled(reqs'[s].token)
            /\ reqs'[s].status # 401 => reqs'[s].pc = "reading"
            /\ (oauth /\ reqs'[s].status = 401) =>
                 reqs'[s].wwwAuthenticate =
                   "Bearer resource_metadata=ISSUER_URL/.well-known/oauth-protected-resource"
            /\ (oauth /\ reqs'[s].token = Opaque(API_KEY)) =>
                 reqs'[s].status = 401]_vars

\* with an OAuthServer: a POST /mcp with a token the server issued was
\* answered 200, and one with the raw API key was answered 401 with the
\* challenge
C17_Witness ==
  /\ oauth
  /\ \E s, u \in Slots :
       /\ reqs[s].route = "POST /mcp"
       /\ reqs[s].token \in minted
       /\ reqs[s].status = 200
       /\ reqs[u].route = "POST /mcp"
       /\ reqs[u].token = ApiKeyToken
       /\ reqs[u].status = 401
       /\ reqs[u].wwwAuthenticate = ResourceMetadataChallenge

----------------------------------------------------------------------------
(* Claims about OAuthServer.exchangeToken, under SpecOAuth *)

\* what exchangeToken returns for token request q in the current state
Returns(q) == ExchangeTokenResult(q.body, q.header, codes, clients, now)
\* the code map's entry for the code of q
EntryOf(q) == IF q.body.code \in Codes THEN codes[q.body.code] ELSE NoCode
\* the client id q presents
PresentedClient(q) == ClientCredentials(q.body, q.header).id
PresentedSecret(q) == ClientCredentials(q.body, q.header).secret

\* the verifier of q is there and matches the challenge of entry e under
\* the method of e
PkceMatches(q, e) ==
  /\ q.body.code_verifier \notin {Undefined, ""}
  /\ e.codeChallenge # ""
  /\ IF e.codeChallengeMethod = "S256"
     THEN Sha256Base64Url(q.body.code_verifier) = e.codeChallenge
     ELSE q.body.code_verifier = e.codeChallenge

\* q is an authorization_code request for a stored, unexpired code with
\* the code's client id and redirect URI and a correct verifier
Redeemable(q) ==
  /\ q.body.grant_type = "authorization_code"
  /\ EntryOf(q).stored
  /\ now <= EntryOf(q).expiresAt
  /\ EntryOf(q).clientId = PresentedClient(q)
  /\ EntryOf(q).redirectUri = q.body.redirect_uri
  /\ PkceMatches(q, EntryOf(q))

\* a token was issued in this step for code c
Redeems(c) == redeemed'[c] > redeemed[c]

SecretAcceptable(q) ==
  \/ PresentedClient(q) \notin clients
  \/ PresentedSecret(q) = ""
  \/ PresentedSecret(q) = ClientSecret(PresentedClient(q))

C19_PkceRequired ==
  /\ [](\A q \in TokenRequests :
          /\ Returns(q).error = "" => (EntryOf(q).stored /\ PkceMatches(q, EntryOf(q)))
          /\ (q.body.grant_type = "authorization_code" /\ EntryOf(q).stored
              /\ ~PkceMatches(q, EntryOf(q)))
               => (Returns(q).error = "invalid_grant" /\ Returns(q).token = NoToken))
  /\ [][\A c \in Codes : Redeems(c) => codes[c].codeChallenge # ""]_vars

\* a request for an unexpired code that was stored with an empty challenge
\* was refused with invalid_grant, and no token was ever issued
C19_Witness ==
  /\ tokenCall.called
  /\ tokenCall.entry.stored
  /\ tokenCall.entry.codeChallenge = ""
  /\ tokenCall.at <= tokenCall.entry.expiresAt
  /\ tokenCall.result.error = "invalid_grant"
  /\ tokenCall.result.token = NoToken
  /\ minted = {}

\* C20: an authorization_code request returns invalid_grant when its code
\* is not stored, is expired, was issued for another redirect URI, or was
\* issued to another client id than the one the request presents (in the
\* Basic header if it has one, else in the body); the token issued for a
\* code names the client the code was issued to.
C20_InvalidGrant ==
  /\ [](\A q \in TokenRequests :
          /\ (/\ q.body.grant_type = "authorization_code"
              /\ \/ ~EntryOf(q).stored
                 \/ now > EntryOf(q).expiresAt
                 \/ EntryOf(q).redirectUri # q.body.redirect_uri
                 \/ EntryOf(q).clientId # PresentedClient(q))
               => (Returns(q).error = "invalid_grant" /\ Returns(q).token = NoToken)
          /\ Returns(q).error = ""
               => (/\ PresentedClient(q) = EntryOf(q).clientId
                   /\ Returns(q).token.sub = EntryOf(q).clientId))
  /\ [][\A c \in Codes :
          Redeems(c) => tokenCall'.result.token.sub = codes[c].clientId]_vars

\* a request for a code that had expired was refused with invalid_grant and
\* the code was deleted
C20_Witness ==
  /\ tokenCall.called
  /\ tokenCall.entry.stored
  /\ tokenCall.at > tokenCall.entry.expiresAt
  /\ tokenCall.result.error = "invalid_grant"
  /\ ~codes[tokenCall.code].stored
  /\ redeemed[tokenCall.code] = 0

\* C21: an authorization code lives 10 minutes.  A code is stored with an
\* expiry 600000 ms after its issue; an authorization_code request made
\* later than that for a stored code returns invalid_grant and deletes the
\* code, whatever else it carries; a request made up to that time that
\* passes every other check is given a token.
C21_CodeLifetime ==
  /\ [][\A c \in Codes :
          (~codes[c].stored /\ codes'[c].stored) =>
            codes'[c].expiresAt = now + 10 * 60 * 1000]_vars
  /\ [](\A q \in TokenRequests :
          (q.body.grant_type = "authorization_code" /\ EntryOf(q).stored) =>
            IF now > EntryOf(q).expiresAt
            THEN /\ Returns(q).error = "invalid_grant"
                 /\ Returns(q).deletes
                 /\ Returns(q).token = NoToken
            ELSE (Redeemable(q) /\ SecretAcceptable(q)) => Returns(q).error = "")
  /\ []((tokenCall.called /\ tokenCall.entry.stored
         /\ tokenCall.result.error # "unsupported_grant_type"
         /\ tokenCall.at > tokenCall.entry.expiresAt)
          => (/\ tokenCall.result.error = "invalid_grant"
              /\ ~codes[tokenCall.code].stored))

\* a code was redeemed exactly 10 minutes after its issue
C21_Witness ==
  /\ tokenCall.called
  /\ tokenCall.entry.stored
  /\ tokenCall.entry.expiresAt = CODE_TTL_MS
  /\ tokenCall.at = CODE_TTL_MS
  /\ tokenCall.result.error = ""
  /\ tokenCall.result.token \in minted

\* C22 as stated: whenever exchangeToken returns an error to an
\* authorization_code request for a code that is in the code map, the code
\* is deleted: no failed request leaves its code in the map.
C22_ErrorDeletesCode ==
  /\ \A q \in TokenRequests :
       (q.body.grant_type = "authorization_code" /\ EntryOf(q).stored
        /\ Returns(q).error # "") => Returns(q).deletes
  /\ (tokenCall.called /\ tokenCall.entry.stored
      /\ tokenCall.result.error \in {"invalid_grant", "invalid_client"})
       => ~codes[tokenCall.code].stored

\* C23: exchangeToken gives a token to a registered client that supplies a
\* secret only when the secret is the registered one; with another secret
\* a request that passes the checks on the code returns invalid_client and
\* no token; a registered client that supplies no secret is given the token.
C23_SecretChecked ==
  /\ \A q \in TokenRequests :
       (Returns(q).error = "" /\ PresentedClient(q) \in clients
        /\ PresentedSecret(q) # "")
         => PresentedSecret(q) = ClientSecret(PresentedClient(q))
  /\ \A q \in TokenRequests :
       (Redeemable(q) /\ PresentedClient(q) \in clients) =>
         IF PresentedSecret(q) \in {"", ClientSecret(PresentedClient(q))}
         THEN Returns(q).error = "" /\ Returns(q).token.kind = "jwt"
         ELSE Returns(q).error = "invalid_client" /\ Returns(q).token = NoToken
  /\ (tokenCall.called /\ tokenCall.result.error = "invalid_client")
       => (tokenCall.entry.clientId \in clients /\ tokenCall.result.token = NoToken)

\* a request for a code of a registered client was refused with
\* invalid_client
C23_Witness ==
  /\ tokenCall.called
  /\ tokenCall.entry.stored
  /\ tokenCall.entry.clientId \in clients
  /\ tokenCall.result.error = "invalid_client"
  /\ minted = {}

----------------------------------------------------------------------------
(* Claims about the OAuth endpoints, under SpecOAuthEndpoints *)

\* a request to the endpoint is handled in this step
Handles(endpoint) ==
  endpointCall'.seq # endpointCall.seq /\ endpointCall'.endpoint = endpoint

\* C24: processAuthorize with an api_key other than the configured one
\* returns an error, POST /oauth/authorize replies 400 with the form, and
\* the code map is as it was, whatever the other fields of the form are.
C24_WrongKeyNoCode ==
  /\ [](\A f \in EndpointForms :
          f.api_key # API_KEY =>
            /\ ProcessAuthorizeResult(f, clients).outcome = "error"
            /\ ~ProcessAuthorizeResult(f, clients).stores)
  /\ [][(Handles("authorize") /\ endpointCall'.form.api_key # API_KEY) =>
          /\ endpointCall'.status = 400
          /\ endpointCall'.error = "api key"
          /\ ~endpointCall'.thrown
          /\ codes' = codes
          /\ codesIssued' = codesIssued]_vars

\* a form with a wrong api_key and no redirect_uri was answered 400, and
\* the code issued before is the only one
C24_Witness ==
  /\ endpointCall.endpoint = "authorize"
  /\ endpointCall.form.api_key = "wrong"
  /\ endpointCall.form.redirect_uri = Undefined
  /\ endpointCall.status = 400
  /\ codesIssued = {"code1"}
  /\ codes["code1"].stored

\* whether the redirect URI is on claude.ai over https, on localhost or on
\* 127.0.0.1
TargetsTrustedHost(uri) ==
  uri \in {"https://claude.ai/cb", "http://localhost/cb", "http://127.0.0.1/cb",
           "http://localhost:99999999/cb"}

\* C25 as stated: processAuthorize with the correct api_key creates a code
\* only if client_id is a registered client or redirect_uri targets
\* claude.ai over https, localhost or 127.0.0.1; if neither holds it
\* returns the 'client not registered' error and creates no code.
C25_CodeOnlyForKnownClient ==
  [][(Handles("authorize") /\ endpointCall'.form.api_key = API_KEY) =>
       LET f == endpointCall'.form
           known == f.client_id \in clients \/ TargetsTrustedHost(f.redirect_uri)
       IN
       /\ codes' # codes => known
       /\ ~known => (/\ endpointCall'.error = "client not registered"
                     /\ endpointCall'.status = 400
                     /\ codes' = codes)]_vars

\* C29 as stated: every request to an OAuth endpoint ends with an HTTP
\* reply; none makes the callback throw.
C29_NoEscapingThrow ==
  /\ ~endpointCall.thrown
  /\ endpointCall.endpoint # "none" => endpointCall.status # 0

----------------------------------------------------------------------------
(* Claims about token validation, under SpecTokenLife *)

\* the current time in epoch seconds
NowSeconds == now \div 1000

\* a token validateToken has to reject: expired, signed with another key,
\* or for another audience
MustBeRejected(t) ==
  \/ t.kind # "jwt"
  \/ t.hasExp /\ t.exp < NowSeconds
  \/ t.key # API_KEY
  \/ t.aud # "ISSUER_URL/mcp"

\* C26: validateToken rejects every token whose exp is earlier than the
\* current time in epoch seconds, also when its signature is valid; it
\* rejects a token whose signature was not made with the API key and one
\* whose audience is not <issuer>/mcp.  A request bearing such a token is
\* answered 401.
C26_ExpiredTokenRejected ==
  /\ [](\A t \in minted \cup ForeignTokens : MustBeRejected(t) => ~ValidateToken(t))
  /\ [][\A s \in Slots :
          (Arrives(s) /\ MustBeRejected(reqs'[s].token)) =>
            reqs'[s].status = 401 /\ reqs'[s].pc = "done"]_vars

\* a request bearing a token this server issued, after the token's exp,
\* was answered 401
C26_Witness ==
  \E s \in Slots :
    /\ reqs[s].token \in minted
    /\ reqs[s].token.key = API_KEY
    /\ reqs[s].token.aud = "ISSUER_URL/mcp"
    /\ reqs[s].token.exp < NowSeconds
    /\ reqs[s].status = 401

\* C27: a token exchangeToken issues at second t carries exp = t + 3600;
\* it passes validateToken at every time up to and including second
\* t + 3600 and at no later time, and a request bearing it is accepted or
\* answered 401 accordingly.
C27_TokenLifetime ==
  /\ [][\A c \in Codes :
          Redeems(c) => (/\ tokenCall'.result.token.hasExp
                         /\ tokenCall'.result.token.exp = NowSeconds + 3600)]_vars
  /\ [](\A t \in minted :
          /\ t.exp - 3600 <= NowSeconds
          /\ ValidateToken(t) <=> NowSeconds <= t.exp)
  /\ [][\A s \in Slots :
          (Arrives(s) /\ reqs'[s].token \in minted) =>
            (reqs'[s].status # 401 <=> NowSeconds <= reqs'[s].token.exp)]_vars

\* a request bearing a token in the last second of its life was accepted
C27_Witness ==
  \E s \in Slots :
    /\ reqs[s].token \in minted
    /\ reqs[s].token.exp = NowSeconds
    /\ NowSeconds = TOKEN_TTL_SECONDS
    /\ reqs[s].pc = "reading"
    /\ reqs[s].status = 0

----------------------------------------------------------------------------
(* Claims about a restart, under SpecRestart *)

\* no token request with a code issued before the restart is given a token
OldCodesRefused ==
  \A q \in TokenRequests :
    q.body.code \in before.codes =>
      /\ Returns(q).error # ""
      /\ q.body.grant_type = "authorization_code" => Returns(q).error = "invalid_grant"

\* a client registered before the restart is not in the client map:
\* processAuthorize takes its id only with a trusted redirect URI
OldClientsUnknown ==
  /\ before.clients \cap clients = {}
  /\ \A f \in RestartForms :
       (f.client_id \in before.clients /\ f.redirect_uri = "https://evil.example/cb")
         => ProcessAuthorizeResult(f, clients).error = "client not registered"

\* C28 as stated: after a restart no client registered, no code issued and
\* no token issued before it is accepted.
C28_RestartInvalidatesAll ==
  /\ OldCodesRefused
  /\ OldClientsUnknown
  /\ \A t \in before.tokens : ~ValidateToken(t)

\* C28, amended: after a restart no client registered and no code issued
\* before it is accepted: the maps of the new OAuthServer are empty.  A
\* token issued before the restart still passes validateToken until its
\* exp: it is checked against the API key, the issuer and the clock only.
C28_RestartKeepsTokens ==
  /\ []OldCodesRefused
  /\ []OldClientsUnknown
  /\ [](\A t \in before.tokens : ValidateToken(t) <=> now \div 1000 <= t.exp)
  /\ [][before' # before =>
          (clients' = {} /\ \A c \in Codes : ~codes'[c].stored)]_vars

\* after a restart the maps are empty and a token issued before it passes
\* validateToken
C28_Witness ==
  /\ clients = {}
  /\ \A c \in Codes : ~codes[c].stored
  /\ \E t \in before.tokens : ValidateToken(t) /\ t.sub = "clientA"

----------------------------------------------------------------------------
(* Claims about the legacy transport, under SpecSseStreams *)

\* the router settles request s in this step
Settles(s) == reqs[s].pc = "awaiting" /\ reqs'[s].pc = "done"

\* C30: on the legacy transport an authorized POST /messages whose body
\* parses as a JSON-RPC message is answered 202, whether no, one or two
\* event streams are open and whether the router returned a result, an
\* error or null; the response is written only to the streams that are
\* open, so with none open it is written nowhere.
C30_MessagesAlways202 ==
  /\ [](\A s \in Slots :
          (transport = "sse" /\ reqs[s].route = "POST /messages"
           /\ reqs[s].parsed /\ reqs[s].pc = "done") => reqs[s].status = 202)
  /\ [][\A s \in Slots :
          (transport = "sse" /\ Settles(s)) =>
            /\ reqs'[s].status = 202
            /\ reqs'[s].response.kind \in {"result", "error", "null"}
            /\ \A i \in DOMAIN wire' \ DOMAIN wire :
                 wire'[i].req = s /\ wire'[i].sink \in connections
            /\ connections = {} => wire' = wire]_vars

\* a request with an id was answered 202 and its response was written
\* nowhere: no event stream was ever opened
C30_Witness ==
  /\ transport = "sse"
  /\ \E s \in Slots :
       /\ reqs[s].route = "POST /messages"
       /\ reqs[s].pc = "done"
       /\ reqs[s].status = 202
       /\ reqs[s].msg.id # Undefined
       /\ reqs[s].response.kind \in {"result", "error"}
       /\ nStream = 0
       /\ wire = <<>>

\* the message events written to stream c in this step
NewFramesTo(c) == {i \in DOMAIN wire' \ DOMAIN wire : wire'[i].sink = c}

\* what a broadcast of the response to request s does to stream c, given
\* whether c is to receive it: one message event with that response or none
BroadcastReaches(s, c, receives) ==
  /\ \A i \in NewFramesTo(c) :
       wire'[i].req = s /\ wire'[i].text = JsonStringify(reqs'[s].response)
  /\ Cardinality(NewFramesTo(c)) = IF receives THEN 1 ELSE 0

\* C31: on the legacy transport, when the router returns a non-null
\* response for a POST /messages, every stream that is in the connection
\* set when the router call completes and whose write does not throw gets
\* exactly one message event carrying that response; a stream of the set
\* whose write throws gets none, is ended and leaves the set; a stream that
\* closed before that moment, and the reply of the POST itself, get none.
C31_BroadcastToOpenStreams ==
  [][\A s \in Slots :
       (transport = "sse" /\ Settles(s) /\ reqs'[s].response.kind # "null") =>
         /\ \A c \in Conns :
              /\ BroadcastReaches(s, c, c \in connections /\ c \in connections')
              /\ c \in connections \ connections' => streams'[c].state = "ended"
         /\ NewFramesTo(ReplySink) = {}]_vars

\* the statement without the write failure: every stream of the set gets
\* the event
C31_BroadcastToAllInSet ==
  [][\A s \in Slots :
       (transport = "sse" /\ Settles(s) /\ reqs'[s].response.kind # "null") =>
         \A c \in Conns : BroadcastReaches(s, c, c \in connections)]_vars

\* a tools/call was answered while one stream was open and another had
\* closed: the open one holds the one message event, the closed one none
C31_Witness ==
  /\ transport = "sse"
  /\ \E s \in Slots :
       /\ reqs[s].route = "POST /messages"
       /\ reqs[s].pc = "done"
       /\ reqs[s].handler = "toolsCallHandler"
       /\ reqs[s].response.kind = "result"
       /\ \E c, d \in Conns :
            /\ streams[c].state = "open" /\ c \in connections
            /\ streams[d].state = "closed"
            /\ Cardinality(FramesTo(s, c)) = 1
            /\ FramesTo(s, d) = {}
            /\ Len(wire) = 1


----------------------------------------------------------------------------
(* Claims about both HTTP transports, under Spec *)

\* C32: a GET /health that carries no credential is answered 200, on the
\* legacy transport as on the streaming transport.
C32_HealthUnauthenticated ==
  \A s \in Slots :
    (transport \in {"sse", "http"} /\ reqs[s].route = "GET /health"
     /\ reqs[s].token = NoToken /\ reqs[s].pc = "done")
      => reqs[s].status = 200


----------------------------------------------------------------------------
(* Claims about the stdio transport, under SpecStdio *)

\* the server as index.ts starts it: constructed and started, its own
\* register never called
WiredByEntryPoint == transport = "stdio" /\ stdioHandlers = EmptyHandlers

\* C33: over stdio as the entry point wires it, a request for a method
\* registered on the shared router (initialize, ping, tools/list,
\* tools/call) is not answered with -32601, and a ping with id 1 is
\* answered with the result {}.
C33_StdioReachesRouter ==
  \A s \in Slots :
    (/\ WiredByEntryPoint
     /\ reqs[s].route = "line" /\ reqs[s].parsed /\ reqs[s].pc = "done"
     /\ reqs[s].msg.id # Undefined
     /\ Lookup(handlers, reqs[s].msg.method.val) # NoHandler)
      => /\ reqs[s].response.code # JSONRPC_METHOD_NOT_FOUND
         /\ reqs[s].msg.method.val = "ping"
              => reqs[s].response = ResultResponse(reqs[s].msg.id, JsObj("{}"))


\* line s is no JSON-RPC message: its text is no JSON, or is JSON but no
\* object, or its jsonrpc is not "2.0", or its method is no string
BrokenLine(s) ==
  /\ reqs[s].route = "line"
  /\ \/ reqs[s].json \in {"notjson", "null"}
     \/ reqs[s].msg.jsonrpc # "2.0"
     \/ reqs[s].msg.method.type # "string"

\* C34: over stdio a line that is invalid JSON, is not an object, has a
\* jsonrpc other than "2.0" or a method that is no string produces no
\* output line, with or without an id, and is finished at once; a request
\* line that arrives after it is still answered with its one output line.
C34_BrokenLineIgnored ==
  \A s \in Slots :
    BrokenLine(s) =>
      /\ reqs[s].pc = "done"
      /\ FramesOf(s) = {}
      /\ \A l \in Slots :
           (l > s /\ reqs[l].pc = "done" /\ ~BrokenLine(l)
            /\ reqs[l].msg.id # Undefined)
             => Cardinality(FramesTo(l, ReplySink)) = 1

\* a line with jsonrpc "1.0" and an id left no output, and the request
\* line after it was answered by its handler
C34_Witness ==
  /\ transport = "stdio"
  /\ \E s, l \in Slots :
       /\ s < l
       /\ BrokenLine(s)
       /\ reqs[s].msg.jsonrpc = "1.0" /\ reqs[s].msg.id = "1"
       /\ FramesOf(s) = {}
       /\ reqs[l].pc = "done" /\ reqs[l].handler = "pingHandler"
       /\ reqs[l].response.kind = "result"
       /\ Cardinality(FramesTo(l, ReplySink)) = 1


----------------------------------------------------------------------------
(* Claims about the tools/call handler, under SpecRouter *)

\* the params name an available tool
NamesAvailableTool(p) == p.name.type = "string" /\ ResolveTool(p.name.val)

\* C35: a tools/call request naming an available tool is answered with a
\* successful response (a result, no error member) also when the tool's
\* handler throws: the result then has isError true and the failure text
\* as content.  The response is an error (-32000) exactly when the name is
\* missing, is no string, or names no available tool.
C35_ToolFailureIsResult ==
  (/\ call.phase = "fulfilled"
   /\ call.handler = "toolsCallHandler"
   /\ call.request.id # Undefined)
    => LET p == ParamsOrEmpty(call.request.params) IN
       /\ NamesAvailableTool(p) =>
            /\ call.response.kind = "result"
            /\ JsonStringify(call.response).keys = {"result"}
            /\ call.response.result \in
                 {JsObj("{content}"), ToolFailure("Field lawId is required")}
       /\ ~NamesAvailableTool(p) =>
            /\ call.response.kind = "error"
            /\ call.response.code = JSONRPC_HANDLER_ERROR
       /\ \A o \in ToolHandlerOutcomes :
            o.kind = "throw" =>
              ToolsCallSettle(o) = Return(ToolFailure(o.value.val))

\* fetch_law failed and the request was answered with a result whose
\* isError is true
C35_Witness ==
  /\ call.phase = "fulfilled"
  /\ call.handler = "toolsCallHandler"
  /\ call.request.id = "1"
  /\ call.request.params.name = JsStr("fetch_law")
  /\ call.response =
       ResultResponse("1", ToolFailure("Field lawId is required"))


----------------------------------------------------------------------------
(* Claims about the connection set of the legacy transport, under
   SpecSseStreams *)

\* C37: on the legacy transport the connection set holds only event
\* streams that were opened and have neither closed nor been ended, every
\* stream of the set has its heartbeat running, and a stream that has
\* closed has no heartbeat timer; a stream whose write fails during a
\* broadcast is ended and leaves the set in that step, while every other
\* stream of the set gets the message event.
C37_ConnectionSet ==
  /\ [](/\ \A c \in connections : c <= nStream /\ streams[c].state = "open"
        /\ connections \subseteq timers
        /\ \A c \in Conns :
             streams[c].state = "closed" => c \notin timers /\ c \notin connections)
  /\ [][\A s \in Slots :
          (transport = "sse" /\ Settles(s)) =>
            \A c \in connections :
              IF c \in connections'
              THEN /\ streams'[c].state = "open"
                   /\ reqs'[s].response.kind # "null"
                        => Cardinality(NewFramesTo(c)) = 1
              ELSE /\ streams'[c].state = "ended"
                   /\ NewFramesTo(c) = {}]_vars

\* the write to one stream failed during the broadcast of a response: the
\* stream is ended and out of the set, the other stream holds the event
C37_Witness ==
  /\ transport = "sse"
  /\ \E s \in Slots, c, d \in Conns :
       /\ reqs[s].pc = "done" /\ reqs[s].response.kind = "result"
       /\ streams[c].state = "ended" /\ c \notin connections
       /\ FramesTo(s, c) = {}
       /\ streams[d].state = "open" /\ d \in connections /\ d \in timers
       /\ Cardinality(FramesTo(s, d)) = 1


----------------------------------------------------------------------------
(* Claims about sessions and pending calls, under SpecSessionRace *)

\* C38: whenever POST /mcp replies 200 or 202 with an Mcp-Session-Id
\* header, the session it names is in the registry when the reply is
\* written, also when a DELETE /mcp for that session was processed while
\* the router call of the POST was pending.
C38_ReplyNamesLiveSession ==
  [][\A s \in Slots :
       (/\ transport = "http" /\ Settles(s)
        /\ reqs'[s].status \in {200, 202}
        /\ reqs'[s].replySession # Undefined)
         => reqs'[s].replySession \in sessions]_vars


----------------------------------------------------------------------------
(* Claims about the push channel of a session, under SpecSessions *)

\* the streams opened for session u that have not closed; streams are
\* numbered in the order they were opened
OpenStreamsOf(u) ==
  {c \in Conns : streams[c].session = u /\ streams[c].state = "open"}
Latest(cs) == CHOOSE c \in cs : \A d \in cs : d <= c

\* stream c closes in this step
Closes(c) == streams[c].state # "closed" /\ streams'[c].state = "closed"

\* C39: the push channel of a session is always the most recently opened
\* of its streams that have not closed (none when every one has closed);
\* the close of an earlier stream never clears the channel when it holds a
\* later stream, and the close of a stream whose session was deleted
\* leaves the registry as it is.
C39_ChannelIsLatestOpenStream ==
  /\ [](\A u \in sessions :
          sseResponse[u] = IF OpenStreamsOf(u) = {} THEN NoConn
                           ELSE Latest(OpenStreamsOf(u)))
  /\ [][\A c \in Conns :
          Closes(c) =>
            LET u == streams[c].session IN
            /\ sseResponse[u] > c => sseResponse'[u] = sseResponse[u]
            /\ u \notin sessions => sessions' = sessions]_vars


----------------------------------------------------------------------------
(* Claims about the cache, under SpecCache *)

\* the keys whose entry has a TTL that has elapsed at the time of the call
ExpiredKeys ==
  {cacheStore[i].key : i \in {j \in DOMAIN cacheStore : now > cacheStore[j].expiresAt}}

\* a set call, a get call is made in this step
SetCalled == nCache' = nCache + 1 /\ cacheOp'.op = "set"
GetCalled == nCache' = nCache + 1 /\ cacheOp'.op = "get"

\* C40: the store never holds more than MAX_ENTRIES (500) entries.  A set
\* that finds fewer removes nothing; a set that finds the store full
\* removes exactly the expired entries if there are any, and otherwise
\* exactly the oldest-inserted entry; then it writes its key with the
\* expiry now + ttl.  A get returns a value only while the entry's expiry
\* has not passed; for an entry whose TTL has elapsed it returns undefined
\* and deletes that entry and no other.
C40_CacheBounded ==
  /\ [](/\ Len(cacheStore) <= MAX_ENTRIES
        /\ Cardinality(KeysOf(cacheStore)) = Len(cacheStore))
  /\ [][SetCalled =>
          LET k == cacheOp'.key
              removed ==
                IF Len(cacheStore) < MAX_ENTRIES THEN {}
                ELSE IF ExpiredKeys # {} THEN ExpiredKeys
                ELSE {cacheStore[1].key}
          IN
          /\ KeysOf(cacheStore') = (KeysOf(cacheStore) \ removed) \cup {k}
          /\ StoreGet(cacheStore', k).expiresAt = now + cacheOp'.ttl * 1000
          /\ Without(cacheStore', k) =
               SelectSeq(cacheStore, LAMBDA e : e.key \notin removed \cup {k})]_vars
  /\ [][GetCalled =>
          LET k == cacheOp'.key
              present == k \in KeysOf(cacheStore)
          IN
          /\ cacheOp'.found =>
               /\ present
               /\ now <= StoreGet(cacheStore, k).expiresAt
               /\ cacheOp'.value = StoreGet(cacheStore, k).value
               /\ cacheStore' = cacheStore
          /\ (present /\ k \in ExpiredKeys) =>
               /\ ~cacheOp'.found
               /\ cacheStore' = Without(cacheStore, k)
          /\ (present /\ k \notin ExpiredKeys) => cacheOp'.found
          /\ ~present => ~cacheOp'.found /\ cacheStore' = cacheStore]_vars

\* a set of a new key found the store full of live entries: the store is
\* full again, the oldest-inserted key is gone, the next oldest is kept
C40_Witness ==
  /\ cacheOp.op = "set"
  /\ cacheOp.key = MAX_ENTRIES + 1
  /\ Len(cacheStore) = MAX_ENTRIES
  /\ cacheStore[MAX_ENTRIES].key = MAX_ENTRIES + 1
  /\ 1 \notin KeysOf(cacheStore)
  /\ cacheStore[1].key = 2
  /\ ExpiredKeys = {}


====
